---- MODULE Spec2Model ----
(***************************************************************************)
(* Model of the maestro workflow run engine: WorkflowEngine.run            *)
(* (packages/core/src/workflow-engine.ts), the manifest transition         *)
(* functions and persistence (packages/core/src/artifacts/manifest.ts),    *)
(* and the parts of the artifact store and event bus that run() drives.    *)
(*                                                                         *)
(* run() is an async function.  Each action below resumes one call of      *)
(* run() from the await it is suspended at, with the outcome of the        *)
(* awaited collaborator (it returned, or it raised), and executes the      *)
(* synchronous code up to the next await.                                  *)
(***************************************************************************)
EXTENDS Integers, Sequences, FiniteSets, TLC

\* ---------------------------------------------------------------- bounds
MaxSteps == 2          \* longest workflow.steps list drawn as input
MaxArtifacts == 2      \* longest result.artifacts list the backend returns
MaxCalls == 3          \* transition functions applied to build a manifest given to a caller
MaxSaves == 2          \* saveManifest calls one caller makes
MaxChanges == 3        \* on / onAny / off / offAny / clear calls that change the bus
MaxCompleted == 2      \* longest run.completedSteps list given to getNextStep

\* ------------------------------------------------------------- universes
Undefined == "undefined"   \* a property that is absent / undefined
Null == "null"             \* run.currentStepId: string | null
NoCall == "none"

Calls == {"c1", "c2"}      \* invocations of WorkflowEngine.run
RunIds == {"r1", "r2"}     \* values generateRunId can produce
StepIds == {"s1", "s2"}
AgentNames == {"a1", "a2"}
NextChoices == {Undefined, "s2"}            \* WorkflowStep.next
BackendErrors == {Undefined, "", "boom"}    \* AgentExecutionOutput.error
ThrownByBackend == {"boom"}                 \* message of an Error execute() raises
IoError == "EIO"                            \* message of a failed fs call
HandlerError == "handler failed"            \* message of an Error a handler raises
Timestamp == "T"                            \* new Date().toISOString()

\* generateRunId draws a date and six random characters; the first call's
\* id is fixed by symmetry, a later call may draw the same id or another.
IdChoices(c) == IF c = "c1" THEN {"r1"} ELSE RunIds

\* WorkflowStepSchema: the fields run() and getNextStep() read
StepDecls == [id : StepIds, agent : AgentNames, next : NextChoices]

RECURSIVE SeqsUpTo(_, _)
SeqsUpTo(S, n) ==
  IF n = 0 THEN {<<>>}
  ELSE LET shorter == SeqsUpTo(S, n - 1)
       IN shorter \cup {Append(q, x) : q \in {p \in shorter : Len(p) = n - 1}, x \in S}

\* WorkflowConfigSchema.steps: z.array(WorkflowStepSchema), any length
Workflows == SeqsUpTo(StepDecls, MaxSteps)

\* agentDefinitions: Map<string, AgentDefinition>, by its key set
AgentMaps == {{}, {"a1"}, {"a1", "a2"}}

\* ------------------------------------------------------------- artifacts
\* Artifact (types/artifact.ts): id, workflowId, stepId, name, path
Art(wid, sid, name) ==
  [id |-> <<wid, sid>>, workflowId |-> wid, stepId |-> sid, name |-> name, path |-> <<>>]

OtherStep(s) == IF s = "s1" THEN "s2" ELSE "s1"
OtherRun(r) == IF r = "r1" THEN "r2" ELSE "r1"

\* What a backend can put in result.artifacts for execute({workflowId: r,
\* stepId: s}): the executors of this repository return artifacts that
\* carry the input's ids; the AgentExecutor interface does not force that.
BackendArtifacts(r, s) ==
  { Art(r, s, "result.md"), Art(r, s, "out.md"),
    Art(r, OtherStep(s), "result.md"), Art(OtherRun(r), s, "result.md") }

\* AgentExecutionOutput, or the Error execute() raised
BackendResults(r, s) ==
  [kind : {"output"}, success : {TRUE}, error : {Undefined},
   artifacts : SeqsUpTo(BackendArtifacts(r, s), MaxArtifacts)]
  \cup [kind : {"output"}, success : {FALSE}, error : BackendErrors, artifacts : {<<>>}]
  \cup [kind : {"raise"}, success : {FALSE}, error : ThrownByBackend, artifacts : {<<>>}]

NoResult == [kind |-> "none", success |-> FALSE, error |-> Undefined, artifacts |-> <<>>]

\* FileSystemArtifactStore.getArtifactPath: join(baseDir, workflowId, stepId, name)
getArtifactPath(artifact) == <<artifact.workflowId, artifact.stepId, artifact.name>>

\* -------------------------------------------------------------- manifest
\* createManifest(runId, workflowName, input, description): status pending, no steps
createManifest(runId, workflowName, input, description) ==
  [id |-> runId, workflowName |-> workflowName, workflowDescription |-> description,
   status |-> "pending", input |-> input, startedAt |-> Timestamp,
   completedAt |-> Undefined, error |-> Undefined, steps |-> <<>>]

\* addManifestStep: append a pending step without artifacts
addManifestStep(m, stepId, agentName) ==
  [m EXCEPT !.steps = Append(@, [id |-> stepId, agent |-> agentName, status |-> "pending",
                                 startedAt |-> Undefined, completedAt |-> Undefined,
                                 error |-> Undefined, artifacts |-> <<>>])]

\* the spread written the other way round, { ...update, ...step }
Merge_StepWins(step, update) == step

\* { ...step, ...update }: the keys of update replace those of step
Merge(step, update) ==
  [k \in DOMAIN step |-> IF k \in DOMAIN update THEN update[k] ELSE step[k]]

\* updateManifestStep written with filter instead of map: the steps that do
\* not match are dropped
updateManifestStep_DropsOthers(m, stepId, update) ==
  [m EXCEPT !.steps = LET kept == SelectSeq(@, LAMBDA st : st.id = stepId)
                      IN [i \in DOMAIN kept |-> Merge(kept[i], update)]]

\* updateManifestStep: merge update into every step whose id matches
updateManifestStep(m, stepId, update) ==
  [m EXCEPT !.steps = [i \in DOMAIN @ |-> IF @[i].id = stepId THEN Merge(@[i], update) ELSE @[i]]]

startManifest(m) == [m EXCEPT !.status = "running"]

\* completeManifest that stamps completedAt but leaves the status as it was
completeManifest_KeepsStatus(m) == [m EXCEPT !.completedAt = Timestamp]

completeManifest(m) == [m EXCEPT !.status = "completed", !.completedAt = Timestamp]

\* a failManifest that records the error but leaves the status alone
failManifest_KeepsStatus(m, error) == [m EXCEPT !.completedAt = Timestamp, !.error = error]

failManifest(m, error) ==
  [m EXCEPT !.status = "failed", !.completedAt = Timestamp, !.error = error]

\* for (const step of workflow.steps) manifest = addManifestStep(...)
RECURSIVE AddSteps(_, _, _)
AddSteps(m, steps, i) ==
  IF i > Len(steps) THEN m
  ELSE AddSteps(addManifestStep(m, steps[i].id, steps[i].agent), steps, i + 1)

\* JSON.stringify(manifest): a property whose value is undefined is left out
StepJSON(st) ==
  [k \in ({k \in DOMAIN st \ {"artifacts"} : st[k] # Undefined} \cup {"artifacts"}) |-> st[k]]

ManifestJSON(m) ==
  [k \in ({k \in DOMAIN m \ {"steps"} : m[k] # Undefined} \cup {"steps"}) |->
     IF k = "steps" THEN [i \in DOMAIN m.steps |-> StepJSON(m.steps[i])] ELSE m[k]]

\* reading property k of a parsed JSON object
Prop(obj, k) == IF k \in DOMAIN obj THEN obj[k] ELSE Undefined

\* result.error || "Unknown error"
OrUnknown(e) == IF e = Undefined \/ e = "" THEN "Unknown error" ELSE e

\* ----------------------------------------------------------------- state
VARIABLES
  enabled,        \* the calls of run() this behaviour makes
  pc,             \* per call: the await the call is suspended at
  runId,          \* per call: const runId
  workflow,       \* per call: workflow.steps
  agentDefinitions, \* per call: the names in the agentDefinitions map
  run,            \* per call: the WorkflowRun object
  manifest,       \* per call: let manifest
  result,         \* per call: const result (of executor.execute)
  raised,         \* per call: how many collaborator calls raised
  rejection,      \* per call: the error run()'s promise rejected with
  runs,           \* this.runs: run id -> the call whose run object is stored
  manifests,      \* this.manifests: run id -> versions set, last is current
  manifestFile,   \* <runDir>/manifest.json: run id -> versions written, last is current
  files,          \* artifact files on disk, by path
  artifacts,      \* FileSystemArtifactStore.artifacts (the index)
  events,         \* the events handed to eventBus.emit, in order
  executions      \* the inputs handed to executor.execute, in order

\* a caller of the manifest functions and of saveManifest / loadManifest /
\* tryLoadManifest on one run directory
VARIABLES
  snapshot,       \* the manifest the last transition function returned
  inputBefore,    \* the manifest handed to that function, as it was at the call
  inputAfter,     \* the same object once the function has returned
  lastCall,       \* the function called last and its arguments
  file,           \* <runDir>/manifest.json
  saved,          \* the manifests handed to saveManifest, in order
  loaded,         \* what the last loadManifest / tryLoadManifest produced
  ncalls          \* how many calls the caller has made

manifestVars == <<snapshot, inputBefore, inputAfter, lastCall, file, saved, loaded, ncalls>>

\* an InMemoryEventBus and the emit calls made on it
VARIABLES
  handlers,       \* this.handlers: event type -> its Set (0: no entry), by position in handlerSets
  handlerSets,    \* the Set objects created by on(), each a list of entries
  anyHandlers,    \* this.anyHandlers, a list of entries
  emits,          \* per emit call: where it is suspended and what it has invoked
  version         \* how many calls have changed the registrations so far

busVars == <<handlers, handlerSets, anyHandlers, emits, version>>

\* a caller of WorkflowEngine.getNextStep
VARIABLES
  resolved        \* the arguments of the call, what they hold afterwards, the result

pureVars == <<resolved>>

\* a ClaudeCodeExecutor and the execute calls made on it
VARIABLES
  executor,           \* per execute call: its input, where it is, what it returned
  runningExecutions   \* this.runningExecutions: key -> the AbortController of
                      \* the execute call that set it, as a set of entries

executorVars == <<executor, runningExecutions>>

\* the subscribers of the bus: what each registration has been called with
VARIABLES
  subs,               \* per (scope, handler): the last on / off / clear that
                      \* concerned it and the emit calls that invoked it since
  again               \* per (scope, handler): "yes" once it was registered again
                      \* while registered, "removed" once that was unregistered

historyVars == <<subs, again>>

\* FileSystemArtifactStore instances over one base directory and its caller
VARIABLES
  store,              \* the instance in use: which one it is, this.artifacts, the
                      \* ids it has saved and the runs it has deleted
  disk,               \* the base directory: its files and its directories
  earlier,            \* what the instance used before this one had saved
  storeCall,          \* the last call made on the instance and what it found
  nStoreCalls         \* how many calls have been made

storeVars == <<store, disk, earlier, storeCall, nStoreCalls>>

\* one invocation of the command line's `run` command
VARIABLES
  cli                 \* its options, what it loaded, where it is, its exit code

cliVars == <<cli>>
extraVars == <<executorVars, historyVars, storeVars, cliVars>>
libVars == <<manifestVars, busVars, pureVars, extraVars>>

callVars == <<enabled, pc, runId, workflow, agentDefinitions, run, manifest, result, raised, rejection>>
sharedVars == <<runs, manifests, manifestFile, files, artifacts, events, executions>>
vars == <<callVars, sharedVars, libVars>>

NoManifest == createManifest(Undefined, Undefined, Undefined, Undefined)

\* <runDir>/manifest.json: absent (ENOENT), unreadable (EACCES), text that
\* is not JSON, or the JSON text of a manifest
NoFile == [kind |-> "absent", content |-> ManifestJSON(NoManifest)]

NoArguments == [op |-> "none", stepId |-> Undefined, update |-> <<>>, error |-> Undefined]
NothingLoaded == [op |-> "none", file |-> "absent", version |-> 0, outcome |-> "none",
                  value |-> ManifestJSON(NoManifest)]

\* the caller has called nothing yet
InitManifestCaller ==
  /\ snapshot = NoManifest
  /\ inputBefore = NoManifest
  /\ inputAfter = NoManifest
  /\ lastCall = NoArguments
  /\ file = NoFile
  /\ saved = <<>>
  /\ loaded = NothingLoaded
  /\ ncalls = 0

NoRun == [id |-> Undefined, status |-> "pending", currentStepId |-> Null,
          completedSteps |-> <<>>, error |-> Undefined, artifacts |-> <<>>]

\* ---------------------------------------------------- InMemoryEventBus
Handlers == {"h1", "h2"}                   \* handler functions
EventTypes == {"workflow.started", "step.started"}
Emits == {"e1", "e2"}                      \* calls of emit
Empty == "empty"                           \* a Set entry that was deleted
NoHandler == "none"

NoEmit == [pc |-> "idle", type |-> Undefined, typeHandlers |-> 0, index |-> 0,
           running |-> NoHandler, log |-> <<>>, finished |-> 0, expected |-> <<>>,
           disturbed |-> FALSE, after |-> FALSE, error |-> Undefined]

\* new Map(), new Set(), no emit called
InitBus ==
  /\ handlers = [t \in EventTypes |-> 0]
  /\ handlerSets = <<>>
  /\ anyHandlers = <<>>
  /\ emits = [e \in Emits |-> NoEmit]
  /\ version = 0

\* getNextStep has not been called
NotResolved == [called |-> FALSE, steps |-> <<>>, completedSteps |-> <<>>,
                stepsAfter |-> <<>>, completedAfter |-> <<>>, result |-> 0]

InitPure == resolved = NotResolved

\* new ClaudeCodeExecutor(), execute not called
InitExecutor ==
  /\ executor = <<>>
  /\ runningExecutions = {}

\* a registration is for one event type or for every type
Scopes == EventTypes \cup {"any"}
Keys == Scopes \X Handlers

\* before, ended: the emit calls made, and those that had returned, when the
\* handler was registered
NoSub == [state |-> "never", before |-> {}, ended |-> {}, received |-> <<>>]

InitHistory ==
  /\ subs = [k \in Keys |-> NoSub]
  /\ again = [k \in Keys |-> "no"]

\* ------------------------------------------- FileSystemArtifactStore
ArtifactIds == {"x", "y"}
Names == {"result.md"}
Absent == "ENOENT"
Paths == RunIds \X StepIds \X Names

\* the content handed to save: a string or a Buffer; a file holds bytes
Contents == {[kind |-> "string", bytes |-> "b1"], [kind |-> "Buffer", bytes |-> "b2"]}
Bytes == {c.bytes : c \in Contents}

\* the artifacts a caller may hand to save (path: "" until the store sets it)
StoreArtifacts == [id : ArtifactIds, workflowId : RunIds, stepId : StepIds, name : Names, path : {<<>>}]

NoStoreCall == [op |-> "none", artifact |-> Undefined, content |-> Undefined, id |-> Undefined,
                workflowId |-> Undefined,
                before |-> [artifacts |-> <<>>, files |-> [p \in Paths |-> Absent], dirs |-> {}]]

\* new FileSystemArtifactStore(baseDir) over a directory nothing was written to
\* (saved, removed, latest: what this instance was asked to do so far, kept
\* for the properties; latest is the content of the last save under each id)
InitStore ==
  /\ store = [instance |-> 1, artifacts |-> <<>>, saved |-> {}, removed |-> {},
             latest |-> [id \in ArtifactIds |-> Undefined]]
  /\ disk = [files |-> [p \in Paths |-> Absent], dirs |-> {}]
  /\ earlier = <<>>
  /\ storeCall = NoStoreCall
  /\ nStoreCalls = 0

\* `maestro run` has not been invoked
NoCli == [pc |-> "idle", dryRun |-> FALSE, input |-> Undefined, unloadable |-> FALSE,
          workflow |-> <<>>, agents |-> {}, exitCode |-> Undefined]

InitCli == cli = NoCli

InitExtra == InitExecutor /\ InitHistory /\ InitStore /\ InitCli

InitEngine(calls) ==
  /\ enabled = calls
  /\ pc = [c \in Calls |-> "idle"]
  /\ runId = [c \in Calls |-> Undefined]
  /\ workflow = [c \in Calls |-> <<>>]
  /\ agentDefinitions = [c \in Calls |-> {}]
  /\ run = [c \in Calls |-> NoRun]
  /\ manifest = [c \in Calls |-> NoManifest]
  /\ result = [c \in Calls |-> NoResult]
  /\ raised = [c \in Calls |-> 0]
  /\ rejection = [c \in Calls |-> Undefined]
  /\ runs = [r \in RunIds |-> NoCall]
  /\ manifests = [r \in RunIds |-> <<>>]
  /\ manifestFile = [r \in RunIds |-> <<>>]
  /\ files = {}
  /\ artifacts = {}
  /\ events = <<>>
  /\ executions = <<>>

InitWith(calls) == InitEngine(calls) /\ InitManifestCaller /\ InitBus /\ InitPure /\ InitExtra

\* one engine, one call of run()
Init == InitWith({"c1"})

\* one engine, two calls of run() that overlap at their awaits
InitTwo == InitWith(Calls)

\* The inputs a call is given.  Two overlapping calls draw from smaller
\* sets: same-shaped steps, and artifact lists that still hold an artifact
\* labelled with the other run's id.
Concurrent == Cardinality(enabled) > 1

ConcurrentWorkflows == {<<>>, <<[id |-> "s1", agent |-> "a1", next |-> Undefined]>>}

ConcurrentBackendResults(r, s) ==
  [kind : {"output"}, success : {TRUE}, error : {Undefined},
   artifacts : {<<>>, <<Art(r, s, "result.md")>>, <<Art(OtherRun(r), s, "result.md")>>}]
  \cup {[kind |-> "output", success |-> FALSE, error |-> "boom", artifacts |-> <<>>],
        [kind |-> "raise", success |-> FALSE, error |-> "boom", artifacts |-> <<>>]}

WorkflowInputs == IF Concurrent THEN ConcurrentWorkflows ELSE Workflows
AgentInputs == IF Concurrent THEN {{"a1"}} ELSE AgentMaps
ExecuteOutcomes(r, s) == IF Concurrent THEN ConcurrentBackendResults(r, s) ELSE BackendResults(r, s)


\* ---------------------------------------------------------------- events
\* MaestroEvent (types/events.ts); fields an event type lacks are Undefined
Event(type, wid, stepId, agentName, error, arts) ==
  [type |-> type, workflowId |-> wid, stepId |-> stepId, agentName |-> agentName,
   error |-> error, artifacts |-> arts]

WorkflowStarted(wid) == Event("workflow.started", wid, Undefined, Undefined, Undefined, <<>>)
StepStarted(wid, st) == Event("step.started", wid, st.id, st.agent, Undefined, <<>>)
StepCompleted(wid, st, names) == Event("step.completed", wid, st.id, st.agent, Undefined, names)
StepFailed(wid, st, error) == Event("step.failed", wid, st.id, st.agent, error, <<>>)
WorkflowCompleted(wid) == Event("workflow.completed", wid, Undefined, Undefined, Undefined, <<>>)
WorkflowFailed(wid, error) == Event("workflow.failed", wid, Undefined, Undefined, error, <<>>)

\* `Agent '${step.agent}' not found`
AgentNotFound(a) == IF a = "a1" THEN "Agent 'a1' not found" ELSE "Agent 'a2' not found"
NoSteps == "Workflow has no steps"

\* ------------------------------------------------- fragments of run()
\* a saveManifest whose run directory does not depend on the run id
saveManifest_SharedDir(r, m) ==
  manifestFile' = [manifestFile EXCEPT !["r1"] = Append(@, ManifestJSON(m))]

\* saveManifest(runDir, manifest) returned: manifest.json holds the JSON text
saveManifest(r, m) ==
  manifestFile' = [manifestFile EXCEPT ![r] = Append(@, ManifestJSON(m))]

\* this.manifests.set(runId, manifest)
SetManifest(r, m) ==
  manifests' = [manifests EXCEPT ![r] = Append(@, m)]

\* this.eventBus.emit(event) is called: the bus starts delivering the event
emit(e) == events' = Append(events, e)

GoTo(c, label) == pc' = [pc EXCEPT ![c] = label]

\* a collaborator call of c raised
Raised(c) == raised' = [raised EXCEPT ![c] = @ + 1]

\* a catch block that also puts every step back to 'pending'
Catch_ResetsSteps(c, errorMessage) ==
  /\ run' = [run EXCEPT ![c].status = "failed", ![c].error = errorMessage]
  /\ manifest' = [manifest EXCEPT ![c] =
        failManifest([@ EXCEPT !.steps = [i \in DOMAIN @ |-> [@[i] EXCEPT !.status = "pending"]]],
                     errorMessage)]
  /\ GoTo(c, "catch.save")

\* catch (error), lines 229-236: the synchronous part up to saveManifest
Catch(c, errorMessage) ==
  /\ run' = [run EXCEPT ![c].status = "failed", ![c].error = errorMessage]
  /\ manifest' = [manifest EXCEPT ![c] = failManifest(@, errorMessage)]
  /\ GoTo(c, "catch.save")

\* an error raised outside the try block, or inside the catch block:
\* the promise run() returned rejects
Reject(c, errorMessage) ==
  /\ rejection' = [rejection EXCEPT ![c] = errorMessage]
  /\ GoTo(c, "rejected")

\* const step = workflow.steps[0]
FirstStep(c) == workflow[c][1]

\* lines 163-178: mark the step completed and emit step.completed
\* (arts is result.artifacts)
MarkStepCompleted(c, arts) ==
  LET step == FirstStep(c)
  IN /\ manifest' = [manifest EXCEPT ![c] =
            updateManifestStep(@, step.id,
              [status |-> "completed", completedAt |-> Timestamp,
               artifacts |-> [i \in DOMAIN arts |-> <<step.id, arts[i].name>>]])]
     /\ emit(StepCompleted(runId[c], step, [i \in DOMAIN arts |-> arts[i].name]))
     /\ GoTo(c, "emit.step.completed")

\* ------------------------------------------------------------- actions
\* run(), lines 73-101: create the run and the manifest, call saveManifest
StartWith(c, wf, ag) ==
  /\ pc[c] = "idle"
  /\ \E id \in IdChoices(c) :
       LET m == startManifest(AddSteps(createManifest(id, "wf", Undefined, Undefined), wf, 1))
       IN /\ runId' = [runId EXCEPT ![c] = id]
          /\ workflow' = [workflow EXCEPT ![c] = wf]
          /\ agentDefinitions' = [agentDefinitions EXCEPT ![c] = ag]
          /\ run' = [run EXCEPT ![c] = [NoRun EXCEPT !.id = id, !.status = "running"]]
          /\ runs' = [runs EXCEPT ![id] = c]
          /\ manifest' = [manifest EXCEPT ![c] = m]
          /\ SetManifest(id, m)
  /\ GoTo(c, "save.initial")
  /\ UNCHANGED <<enabled, result, raised, rejection, manifestFile, files, artifacts, events, executions>>

\* a caller calls run(workflow, agentDefinitions, input)
Start(c) ==
  /\ c \in enabled
  /\ \E wf \in WorkflowInputs, ag \in AgentInputs : StartWith(c, wf, ag)

\* line 101 resumes; line 104 calls emit(workflow.started)
AwaitSaveInitial(c) ==
  /\ pc[c] = "save.initial"
  /\ \/ /\ saveManifest(runId[c], manifest[c])
        /\ emit(WorkflowStarted(runId[c]))
        /\ GoTo(c, "emit.workflow.started")
        /\ UNCHANGED <<raised, rejection>>
     \/ /\ Raised(c)
        /\ Reject(c, IoError)
        /\ UNCHANGED <<manifestFile, events>>
  /\ UNCHANGED <<enabled, runId, workflow, agentDefinitions, run, manifest, result,
                 runs, manifests, files, artifacts, executions>>

\* line 104 resumes; lines 111-133: pick the step, find its agent,
\* mark the step running, call saveManifest
AwaitEmitWorkflowStarted(c) ==
  /\ pc[c] = "emit.workflow.started"
  /\ \/ /\ Raised(c)
        /\ Reject(c, HandlerError)
        /\ UNCHANGED <<run, manifest>>
     \/ /\ UNCHANGED <<raised, rejection>>
        /\ IF Len(workflow[c]) = 0
             THEN Catch(c, NoSteps)
           ELSE IF FirstStep(c).agent \notin agentDefinitions[c]
             THEN Catch(c, AgentNotFound(FirstStep(c).agent))
           ELSE /\ run' = [run EXCEPT ![c].currentStepId = FirstStep(c).id]
                /\ manifest' = [manifest EXCEPT ![c] =
                      updateManifestStep(@, FirstStep(c).id,
                        [status |-> "running", startedAt |-> Timestamp])]
                /\ GoTo(c, "save.running")
  /\ UNCHANGED <<enabled, runId, workflow, agentDefinitions, result, sharedVars>>

\* line 133 resumes; line 136 calls emit(step.started)
AwaitSaveRunning(c) ==
  /\ pc[c] = "save.running"
  /\ \/ /\ saveManifest(runId[c], manifest[c])
        /\ emit(StepStarted(runId[c], FirstStep(c)))
        /\ GoTo(c, "emit.step.started")
        /\ UNCHANGED <<raised, run, manifest>>
     \/ /\ Raised(c)
        /\ Catch(c, IoError)
        /\ UNCHANGED <<manifestFile, events>>
  /\ UNCHANGED <<enabled, runId, workflow, agentDefinitions, result, rejection,
                 runs, manifests, files, artifacts, executions>>

\* line 136 resumes; lines 145-153 build the input and call executor.execute
AwaitEmitStepStarted(c) ==
  /\ pc[c] = "emit.step.started"
  /\ \/ /\ executions' = Append(executions, [workflowId |-> runId[c], stepId |-> FirstStep(c).id])
        /\ GoTo(c, "execute")
        /\ UNCHANGED <<raised, run, manifest>>
     \/ /\ Raised(c)
        /\ Catch(c, HandlerError)
        /\ UNCHANGED executions
  /\ UNCHANGED <<enabled, runId, workflow, agentDefinitions, result, rejection,
                 runs, manifests, manifestFile, files, artifacts, events>>

\* line 153 resumes with the backend's result; on success the first
\* artifactStore.save is called (or, without artifacts, lines 163-178 run);
\* on failure lines 186-199 mark the step failed and emit step.failed
AwaitExecute(c) ==
  /\ pc[c] = "execute"
  /\ \E res \in ExecuteOutcomes(runId[c], FirstStep(c).id) :
       /\ result' = [result EXCEPT ![c] = res]
       /\ IF res.kind = "raise"
            THEN /\ Raised(c)
                 /\ Catch(c, res.error)
                 /\ UNCHANGED events
          ELSE IF res.success
            THEN /\ UNCHANGED <<raised, run>>
                 /\ IF Len(res.artifacts) = 0
                      THEN MarkStepCompleted(c, res.artifacts)
                      ELSE /\ GoTo(c, "save.artifact")
                           /\ UNCHANGED <<manifest, events>>
          ELSE /\ UNCHANGED <<raised, run>>
               /\ manifest' = [manifest EXCEPT ![c] =
                     updateManifestStep(@, FirstStep(c).id,
                       [status |-> "failed", completedAt |-> Timestamp, error |-> res.error])]
               /\ emit(StepFailed(runId[c], FirstStep(c), OrUnknown(res.error)))
               /\ GoTo(c, "emit.step.failed")
  /\ UNCHANGED <<enabled, runId, workflow, agentDefinitions, rejection,
                 runs, manifests, manifestFile, files, artifacts, executions>>

\* FileSystemArtifactStore.save returned: the file is written and indexed
save(artifact) ==
  /\ files' = files \cup {getArtifactPath(artifact)}
  /\ artifacts' = {a \in artifacts : a.id # artifact.id}
                    \cup {[artifact EXCEPT !.path = getArtifactPath(artifact)]}

\* line 159 resumes; line 160 pushes the artifact; the loop saves the next
\* artifact, or lines 163-178 mark the step completed and emit step.completed
AwaitArtifactSave(c) ==
  /\ pc[c] = "save.artifact"
  /\ LET i == Len(run[c].artifacts) + 1
         artifact == result[c].artifacts[i]
     IN \/ /\ save(artifact)
           /\ run' = [run EXCEPT ![c].artifacts = Append(@, artifact)]
           /\ IF i < Len(result[c].artifacts)
                THEN UNCHANGED <<pc, manifest, events>>
                ELSE MarkStepCompleted(c, result[c].artifacts)
           /\ UNCHANGED raised
        \/ /\ Raised(c)
           /\ Catch(c, IoError)
           /\ UNCHANGED <<files, artifacts, events>>
  /\ UNCHANGED <<enabled, runId, workflow, agentDefinitions, result, rejection,
                 runs, manifests, manifestFile, executions>>

\* line 171 resumes; lines 180-183 complete the run, line 207 calls saveManifest
AwaitEmitStepCompleted(c) ==
  /\ pc[c] = "emit.step.completed"
  /\ \/ /\ run' = [run EXCEPT ![c].completedSteps = Append(@, FirstStep(c).id),
                              ![c].currentStepId = Null,
                              ![c].status = "completed"]
        /\ manifest' = [manifest EXCEPT ![c] = completeManifest(@)]
        /\ GoTo(c, "save.final")
        /\ UNCHANGED raised
     \/ /\ Raised(c)
        /\ Catch(c, HandlerError)
  /\ UNCHANGED <<enabled, runId, workflow, agentDefinitions, result, rejection, sharedVars>>

\* a failure branch that retries the step: execute is called again
AwaitEmitStepFailed_Retries(c) ==
  /\ pc[c] = "emit.step.failed"
  /\ executions' = Append(executions, [workflowId |-> runId[c], stepId |-> FirstStep(c).id])
  /\ GoTo(c, "execute")
  /\ UNCHANGED <<enabled, runId, workflow, agentDefinitions, run, manifest, result, raised,
                 rejection, runs, manifests, manifestFile, files, artifacts, events>>

\* line 192 resumes; lines 201-203 fail the run, line 207 calls saveManifest
AwaitEmitStepFailed(c) ==
  /\ pc[c] = "emit.step.failed"
  /\ \/ /\ run' = [run EXCEPT ![c].status = "failed", ![c].error = result[c].error]
        /\ manifest' = [manifest EXCEPT ![c] = failManifest(@, OrUnknown(result[c].error))]
        /\ GoTo(c, "save.final")
        /\ UNCHANGED raised
     \/ /\ Raised(c)
        /\ Catch(c, HandlerError)
  /\ UNCHANGED <<enabled, runId, workflow, agentDefinitions, result, rejection, sharedVars>>

\* the closing event chosen without looking at run.status
FinalEvent_AlwaysFailed(c) == WorkflowFailed(runId[c], OrUnknown(run[c].error))

\* lines 211-224: the event that closes the run, chosen by run.status
FinalEvent(c) ==
  IF run[c].status = "completed"
    THEN WorkflowCompleted(runId[c])
    ELSE WorkflowFailed(runId[c], OrUnknown(run[c].error))

\* line 207 resumes; line 208 stores the manifest; lines 211-224 call
\* emit(workflow.completed) or emit(workflow.failed)
AwaitSaveFinal(c) ==
  /\ pc[c] = "save.final"
  /\ \/ /\ saveManifest(runId[c], manifest[c])
        /\ SetManifest(runId[c], manifest[c])
        /\ emit(FinalEvent(c))
        /\ GoTo(c, "emit.final")
        /\ UNCHANGED <<raised, run, manifest>>
     \/ /\ Raised(c)
        /\ Catch(c, IoError)
        /\ UNCHANGED <<manifestFile, manifests, events>>
  /\ UNCHANGED <<enabled, runId, workflow, agentDefinitions, result, rejection,
                 runs, files, artifacts, executions>>

\* line 212 / 218 resumes; line 227 returns run
AwaitEmitFinal(c) ==
  /\ pc[c] = "emit.final"
  /\ \/ /\ GoTo(c, "returned")
        /\ UNCHANGED <<raised, run, manifest>>
     \/ /\ Raised(c)
        /\ Catch(c, HandlerError)
  /\ UNCHANGED <<enabled, runId, workflow, agentDefinitions, result, rejection, sharedVars>>

\* line 236 (in the catch block) resumes; line 237 stores the manifest,
\* line 239 calls emit(workflow.failed)
AwaitCatchSave(c) ==
  /\ pc[c] = "catch.save"
  /\ \/ /\ saveManifest(runId[c], manifest[c])
        /\ SetManifest(runId[c], manifest[c])
        /\ emit(WorkflowFailed(runId[c], run[c].error))
        /\ GoTo(c, "catch.emit")
        /\ UNCHANGED <<raised, rejection>>
     \/ /\ Raised(c)
        /\ Reject(c, IoError)
        /\ UNCHANGED <<manifestFile, manifests, events>>
  /\ UNCHANGED <<enabled, runId, workflow, agentDefinitions, run, manifest, result,
                 runs, files, artifacts, executions>>

\* line 239 (in the catch block) resumes; line 246 returns run
AwaitCatchEmit(c) ==
  /\ pc[c] = "catch.emit"
  /\ \/ /\ GoTo(c, "returned")
        /\ UNCHANGED <<raised, rejection>>
     \/ /\ Raised(c)
        /\ Reject(c, HandlerError)
  /\ UNCHANGED <<enabled, runId, workflow, agentDefinitions, run, manifest, result, sharedVars>>

Next ==
  \/ \E c \in Calls : Start(c) /\ UNCHANGED libVars
  \/ \E c \in Calls : AwaitSaveInitial(c) /\ UNCHANGED libVars
  \/ \E c \in Calls : AwaitEmitWorkflowStarted(c) /\ UNCHANGED libVars
  \/ \E c \in Calls : AwaitSaveRunning(c) /\ UNCHANGED libVars
  \/ \E c \in Calls : AwaitEmitStepStarted(c) /\ UNCHANGED libVars
  \/ \E c \in Calls : AwaitExecute(c) /\ UNCHANGED libVars
  \/ \E c \in Calls : AwaitArtifactSave(c) /\ UNCHANGED libVars
  \/ \E c \in Calls : AwaitEmitStepCompleted(c) /\ UNCHANGED libVars
  \/ \E c \in Calls : AwaitEmitStepFailed(c) /\ UNCHANGED libVars
  \/ \E c \in Calls : AwaitSaveFinal(c) /\ UNCHANGED libVars
  \/ \E c \in Calls : AwaitEmitFinal(c) /\ UNCHANGED libVars
  \/ \E c \in Calls : AwaitCatchSave(c) /\ UNCHANGED libVars
  \/ \E c \in Calls : AwaitCatchEmit(c) /\ UNCHANGED libVars

Spec == Init /\ [][Next]_vars

\* two overlapping calls of run() on one engine
SpecTwo == InitTwo /\ [][Next]_vars

\* ------------------------------------------- manifest.ts and its caller
\* update: Partial<ManifestStep>, as the engine passes it (lines 126-130,
\* 164-168, 186-190; error: result.error may be undefined or empty)
StepUpdates ==
  { [status |-> "running", startedAt |-> Timestamp],
    [status |-> "completed", completedAt |-> Timestamp, artifacts |-> << <<"s1", "result.md">> >>],
    [status |-> "failed", completedAt |-> Timestamp, error |-> Undefined],
    [status |-> "failed", completedAt |-> Timestamp, error |-> "boom"] }

\* (input, description) of createManifest: both optional
CreateArguments == {<<Undefined, Undefined>>, <<"in", "d">>}

\* what the transition functions can return for m
Transitions(m) ==
  {addManifestStep(m, id, "a1") : id \in {i \in StepIds : Len(m.steps) < MaxSteps}}
  \cup {updateManifestStep(m, id, u) : id \in StepIds, u \in StepUpdates}
  \cup {startManifest(m), completeManifest(m), failManifest(m, "boom")}

\* the manifests built with createManifest and at most n transition functions
RECURSIVE Reachable(_)
Reachable(n) ==
  IF n = 0 THEN {createManifest("r1", "wf", a[1], a[2]) : a \in CreateArguments}
  ELSE LET fewer == Reachable(n - 1)
       IN fewer \cup UNION {Transitions(m) : m \in fewer}

\* a caller that holds some reachable manifest and has called nothing yet
InitManifestInputs ==
  /\ snapshot \in Reachable(MaxCalls)
  /\ inputBefore = NoManifest
  /\ inputAfter = NoManifest
  /\ lastCall = NoArguments
  /\ file = NoFile
  /\ saved = <<>>
  /\ loaded = NothingLoaded
  /\ ncalls = 0

\* the caller applies one transition function to its manifest
Called(op, stepId, update, error) ==
  /\ ncalls = 0
  /\ loaded.op = "none"
  /\ lastCall' = [op |-> op, stepId |-> stepId, update |-> update, error |-> error]
  /\ ncalls' = ncalls + 1

\* a transition function that assigns its result to the properties of its
\* parameter instead of building a new object
Transition_InPlace(out) ==
  /\ inputBefore' = snapshot
  /\ inputAfter' = out
  /\ snapshot' = out
  /\ UNCHANGED <<file, saved, loaded>>

\* a transition function returned out: it built a new object with a spread
\* of its parameter and assigned to no property of the parameter
Transition(out) ==
  /\ inputBefore' = snapshot
  /\ inputAfter' = snapshot
  /\ snapshot' = out
  /\ UNCHANGED <<file, saved, loaded>>

CallAddManifestStep ==
  /\ Len(snapshot.steps) < MaxSteps
  /\ \E id \in StepIds :
       /\ Transition(addManifestStep(snapshot, id, "a1"))
       /\ Called("addManifestStep", id, <<>>, Undefined)

CallUpdateManifestStep ==
  /\ \E id \in StepIds, u \in StepUpdates :
       /\ Transition(updateManifestStep(snapshot, id, u))
       /\ Called("updateManifestStep", id, u, Undefined)

CallStartManifest ==
  /\ Transition(startManifest(snapshot))
  /\ Called("startManifest", Undefined, <<>>, Undefined)

CallCompleteManifest ==
  /\ Transition(completeManifest(snapshot))
  /\ Called("completeManifest", Undefined, <<>>, Undefined)

CallFailManifest ==
  /\ Transition(failManifest(snapshot, "boom"))
  /\ Called("failManifest", Undefined, <<>>, "boom")

\* writeFile opened with flag 'wx': an existing manifest.json is kept
writeFile_KeepsExisting(m) ==
  IF file.kind = "absent" THEN [kind |-> "json", content |-> ManifestJSON(m)] ELSE file

\* writeFile(filePath, JSON.stringify(manifest, null, 2)): the file holds the
\* JSON text of m, whatever it held before
writeFile(m) == [kind |-> "json", content |-> ManifestJSON(m)]

\* saveManifest(runDir, snapshot) returned, or mkdir / writeFile raised and
\* left the file as it was or cut short
CallSaveManifest ==
  /\ loaded.op = "none"
  /\ Len(saved) < MaxSaves
  /\ \/ /\ file' = writeFile(snapshot)
        /\ saved' = Append(saved, snapshot)
     \/ /\ file' \in {file, [NoFile EXCEPT !.kind = "garbage"]}
        /\ UNCHANGED saved
  /\ UNCHANGED <<snapshot, inputBefore, inputAfter, lastCall, loaded, ncalls>>

\* loadManifest(runDir): readFile raises when the file is absent or cannot
\* be read, JSON.parse raises on text that is not JSON
loadManifestFrom(f) ==
  [op |-> "loadManifest", file |-> f.kind, version |-> Len(saved),
   outcome |-> IF f.kind = "json" THEN "value" ELSE "raise",
   value |-> IF f.kind = "json" THEN f.content ELSE NoFile.content]

\* tryLoadManifest(runDir): try { return await loadManifest } catch { return null }
tryLoadManifest(f) ==
  LET r == loadManifestFrom(f)
  IN [r EXCEPT !.op = "tryLoadManifest",
               !.outcome = IF r.outcome = "raise" THEN "null" ELSE r.outcome]

CallLoadManifest ==
  /\ loaded.op = "none"
  /\ loaded' = loadManifestFrom(file)
  /\ UNCHANGED <<snapshot, inputBefore, inputAfter, lastCall, file, saved, ncalls>>

CallTryLoadManifest ==
  /\ loaded.op = "none"
  /\ loaded' = tryLoadManifest(file)
  /\ UNCHANGED <<snapshot, inputBefore, inputAfter, lastCall, file, saved, ncalls>>

\* outside the program: the run directory is removed, or manifest.json is
\* made unreadable (permissions, a directory of that name)
FileChanges ==
  /\ loaded.op = "none"
  /\ file' \in {NoFile, [NoFile EXCEPT !.kind = "unreadable"]} \ {file}
  /\ UNCHANGED <<snapshot, inputBefore, inputAfter, lastCall, saved, loaded, ncalls>>

NextManifest ==
  \/ CallAddManifestStep /\ UNCHANGED <<callVars, sharedVars, busVars, pureVars, extraVars>>
  \/ CallUpdateManifestStep /\ UNCHANGED <<callVars, sharedVars, busVars, pureVars, extraVars>>
  \/ CallStartManifest /\ UNCHANGED <<callVars, sharedVars, busVars, pureVars, extraVars>>
  \/ CallCompleteManifest /\ UNCHANGED <<callVars, sharedVars, busVars, pureVars, extraVars>>
  \/ CallFailManifest /\ UNCHANGED <<callVars, sharedVars, busVars, pureVars, extraVars>>
  \/ CallSaveManifest /\ UNCHANGED <<callVars, sharedVars, busVars, pureVars, extraVars>>
  \/ CallLoadManifest /\ UNCHANGED <<callVars, sharedVars, busVars, pureVars, extraVars>>
  \/ CallTryLoadManifest /\ UNCHANGED <<callVars, sharedVars, busVars, pureVars, extraVars>>
  \/ FileChanges /\ UNCHANGED <<callVars, sharedVars, busVars, pureVars, extraVars>>

\* no call of run(), no bus; one caller of the manifest functions
InitManifest == InitEngine({}) /\ InitManifestInputs /\ InitBus /\ InitPure /\ InitExtra

SpecManifest == InitManifest /\ [][NextManifest]_vars

\* ------------------------------------------- InMemoryEventBus (part_003)
\* A JavaScript Set is a list of entries: add appends unless the value is
\* already in the Set, delete empties the entry where it stands, clear
\* empties every entry, and an iteration walks the list and skips emptied
\* entries, so a suspended for-of loop sees what is added behind it.
Has(entries, h) == \E i \in DOMAIN entries : entries[i] = h
Add(entries, h) == IF Has(entries, h) THEN entries ELSE Append(entries, h)
Delete(entries, h) == [i \in DOMAIN entries |-> IF entries[i] = h THEN Empty ELSE entries[i]]
Clear(entries) == [i \in DOMAIN entries |-> Empty]
Live(entries) == SelectSeq(entries, LAMBDA x : x # Empty)

\* the position of the first entry after position i that is not emptied, 0 if none
NextLive(entries, i) ==
  LET later == {j \in DOMAIN entries : j > i /\ entries[j] # Empty}
  IN IF later = {} THEN 0 ELSE CHOOSE j \in later : \A k \in later : j <= k

\* the Set an emit call holds in typeHandlers (undefined: nothing to iterate)
TypeEntries(ref) == IF ref = 0 THEN <<>> ELSE handlerSets[ref]

InFlight(e) == emits[e].pc \in {"type", "any"}
Ended(e) == emits[e].pc \in {"resolved", "rejected"}

\* a call that changes the registrations (while some emit may be suspended)
Changes ==
  /\ version < MaxChanges
  /\ version' = version + 1
  /\ emits' = [e \in Emits |-> IF InFlight(e) THEN [emits[e] EXCEPT !.disturbed = TRUE]
                                ELSE emits[e]]

Keeps == UNCHANGED <<version, emits>>

\* on(eventType, handler), lines 39-42
on(t, h) ==
  /\ IF handlers[t] = 0
       THEN /\ handlerSets' = Append(handlerSets, <<h>>)
            /\ handlers' = [handlers EXCEPT ![t] = Len(handlerSets) + 1]
            /\ Changes
       ELSE IF Has(handlerSets[handlers[t]], h)
         THEN UNCHANGED <<handlerSets, handlers>> /\ Keeps
         ELSE /\ handlerSets' = [handlerSets EXCEPT ![handlers[t]] = Add(@, h)]
              /\ Changes
              /\ UNCHANGED handlers
  /\ UNCHANGED anyHandlers

\* an onAny over an array of handlers: the handler is pushed again
onAny_Pushes(h) ==
  /\ anyHandlers' = Append(anyHandlers, h)
  /\ Changes
  /\ UNCHANGED <<handlers, handlerSets>>

\* onAny(handler), line 49
onAny(h) ==
  /\ anyHandlers' = Add(anyHandlers, h)
  /\ IF Has(anyHandlers, h) THEN Keeps ELSE Changes
  /\ UNCHANGED <<handlers, handlerSets>>

\* off(eventType, handler), line 59: this.handlers.get(eventType)?.delete(handler)
off(t, h) ==
  /\ IF handlers[t] # 0 /\ Has(handlerSets[handlers[t]], h)
       THEN /\ handlerSets' = [handlerSets EXCEPT ![handlers[t]] = Delete(@, h)]
            /\ Changes
       ELSE UNCHANGED handlerSets /\ Keeps
  /\ UNCHANGED <<handlers, anyHandlers>>

\* offAny(handler), line 66
offAny(h) ==
  /\ anyHandlers' = Delete(anyHandlers, h)
  /\ IF Has(anyHandlers, h) THEN Changes ELSE Keeps
  /\ UNCHANGED <<handlers, handlerSets>>

\* clear(), lines 73-74: the Map loses its entries (the Set objects are not
\* touched), the wildcard Set is emptied
clear ==
  /\ handlers' = [t \in EventTypes |-> 0]
  /\ anyHandlers' = Clear(anyHandlers)
  /\ IF (\E t \in EventTypes : handlers[t] # 0) \/ Live(anyHandlers) # <<>>
       THEN Changes ELSE Keeps
  /\ UNCHANGED handlerSets

\* the deliveries an emit of type t makes when nothing changes the
\* registrations while it runs
Expected(t) ==
  LET specific == Live(TypeEntries(handlers[t]))
      wildcard == Live(anyHandlers)
  IN [i \in DOMAIN specific |-> <<"type", specific[i]>>]
       \o [i \in DOMAIN wildcard |-> <<"any", wildcard[i]>>]

Invoke(r, phase, i, h) ==
  [r EXCEPT !.pc = phase, !.index = i, !.running = h, !.log = Append(@, <<phase, h>>)]

\* lines 20-29 from the point where emit call r stands: the type loop takes
\* its next entry, or the wildcard loop starts or takes its next entry, and
\* the handler is called; with no entry left emit returns
Continue(r) ==
  LET typeNext == IF r.pc = "type" THEN NextLive(TypeEntries(r.typeHandlers), r.index) ELSE 0
      anyNext == NextLive(anyHandlers, IF r.pc = "any" THEN r.index ELSE 0)
  IN IF typeNext > 0 THEN Invoke(r, "type", typeNext, TypeEntries(r.typeHandlers)[typeNext])
     ELSE IF anyNext > 0 THEN Invoke(r, "any", anyNext, anyHandlers[anyNext])
     ELSE [r EXCEPT !.pc = "resolved", !.running = NoHandler]

\* the event types call e may emit; by symmetry the call named e1 is the
\* first one made and emits a workflow.started event
EmittedBy(e) ==
  IF e = "e1" THEN {"workflow.started"}
  ELSE IF emits["e1"].pc = "idle" THEN {} ELSE EventTypes

\* emit(event) is called: line 17 reads the Set of the type, the first
\* handler is called
EmitCalled(e) ==
  /\ emits[e].pc = "idle"
  /\ \E t \in EmittedBy(e) :
       emits' = [emits EXCEPT ![e] =
                  Continue([NoEmit EXCEPT !.pc = "type", !.type = t,
                                          !.typeHandlers = handlers[t],
                                          !.expected = Expected(t),
                                          !.after = \A f \in Emits \ {e} : Ended(f)])]
  /\ UNCHANGED <<handlers, handlerSets, anyHandlers, version>>

\* an emit that returns as soon as its first handler has finished
HandlerReturned_SkipsRest(e) ==
  /\ emits[e].running # NoHandler
  /\ emits' = [emits EXCEPT ![e] = [@ EXCEPT !.pc = "resolved", !.running = NoHandler,
                                              !.finished = @ + 1]]
  /\ UNCHANGED <<handlers, handlerSets, anyHandlers, version>>

\* await handler(event) resumes (lines 22, 28): the loop goes on
HandlerReturned(e) ==
  /\ emits[e].running # NoHandler
  /\ emits' = [emits EXCEPT ![e] = Continue([@ EXCEPT !.finished = @ + 1])]
  /\ UNCHANGED <<handlers, handlerSets, anyHandlers, version>>

\* an emit that catches the error of a handler and goes on with the next
HandlerRaised_Isolated(e) ==
  /\ emits[e].running # NoHandler
  /\ emits' = [emits EXCEPT ![e] = Continue([@ EXCEPT !.finished = @ + 1, !.error = HandlerError])]
  /\ UNCHANGED <<handlers, handlerSets, anyHandlers, version>>

\* await handler(event) raises (the handler threw or its promise rejected):
\* nothing in emit catches it, the promise of emit rejects
HandlerRaised(e) ==
  /\ emits[e].running # NoHandler
  /\ emits' = [emits EXCEPT ![e] = [@ EXCEPT !.pc = "rejected", !.running = NoHandler,
                                              !.finished = @ + 1, !.error = HandlerError]]
  /\ UNCHANGED <<handlers, handlerSets, anyHandlers, version>>

NextBus ==
  \/ \E t \in EventTypes, h \in Handlers : on(t, h) /\ UNCHANGED <<callVars, sharedVars, manifestVars, pureVars, extraVars>>
  \/ \E h \in Handlers : onAny(h) /\ UNCHANGED <<callVars, sharedVars, manifestVars, pureVars, extraVars>>
  \/ \E t \in EventTypes, h \in Handlers : off(t, h) /\ UNCHANGED <<callVars, sharedVars, manifestVars, pureVars, extraVars>>
  \/ \E h \in Handlers : offAny(h) /\ UNCHANGED <<callVars, sharedVars, manifestVars, pureVars, extraVars>>
  \/ clear /\ UNCHANGED <<callVars, sharedVars, manifestVars, pureVars, extraVars>>
  \/ \E e \in Emits : EmitCalled(e) /\ UNCHANGED <<callVars, sharedVars, manifestVars, pureVars, extraVars>>
  \/ \E e \in Emits : HandlerReturned(e) /\ UNCHANGED <<callVars, sharedVars, manifestVars, pureVars, extraVars>>
  \/ \E e \in Emits : HandlerRaised(e) /\ UNCHANGED <<callVars, sharedVars, manifestVars, pureVars, extraVars>>

\* no call of run(); one bus, its subscribers and two emit calls
InitBusOnly == InitEngine({}) /\ InitManifestCaller /\ InitBus /\ InitPure /\ InitExtra

SpecBus == InitBusOnly /\ [][NextBus]_vars

\* ------------------------------ the subscribers of an InMemoryEventBus
\* the same calls on the bus, with what each registration observes
EmitsCalled == {e \in Emits : emits[e].pc # "idle"}

\* on / onAny returned: a handler that was not registered is registered now
Registered(k, wasRegistered) ==
  IF wasRegistered THEN subs
  ELSE [subs EXCEPT ![k] = [state |-> "on", before |-> EmitsCalled,
                             ended |-> {e \in Emits : Ended(e)}, received |-> <<>>]]

\* off / offAny returned
Unregistered(k) ==
  IF subs[k].state = "never" THEN subs
  ELSE [subs EXCEPT ![k] = [NoSub EXCEPT !.state = "off"]]

\* clear returned
Cleared ==
  [k \in Keys |-> IF subs[k].state = "on" THEN [NoSub EXCEPT !.state = "cleared"] ELSE subs[k]]

\* emit call e, as r, has just called a handler (or has returned)
Delivered(e, r) ==
  IF r.running = NoHandler THEN subs
  ELSE LET k == <<IF r.pc = "type" THEN r.type ELSE "any", r.running>>
       IN [subs EXCEPT ![k].received = Append(@, e)]

IsRegistered(t, h) == handlers[t] # 0 /\ Has(handlerSets[handlers[t]], h)

SubscriberOn(t, h) == on(t, h) /\ subs' = Registered(<<t, h>>, IsRegistered(t, h))
SubscriberOnAny(h) == onAny(h) /\ subs' = Registered(<<"any", h>>, Has(anyHandlers, h))
SubscriberOff(t, h) == off(t, h) /\ subs' = Unregistered(<<t, h>>)
SubscriberOffAny(h) == offAny(h) /\ subs' = Unregistered(<<"any", h>>)
SubscriberClear == clear /\ subs' = Cleared
SubscriberEmitCalled(e) == EmitCalled(e) /\ subs' = Delivered(e, emits'[e])
SubscriberHandlerReturned(e) == HandlerReturned(e) /\ subs' = Delivered(e, emits'[e])
SubscriberHandlerRaised(e) == HandlerRaised(e) /\ UNCHANGED subs

NextSubscribers ==
  \/ \E t \in EventTypes, h \in Handlers : SubscriberOn(t, h) /\ UNCHANGED <<callVars, sharedVars, manifestVars, pureVars, executorVars, storeVars, cliVars, again>>
  \/ \E h \in Handlers : SubscriberOnAny(h) /\ UNCHANGED <<callVars, sharedVars, manifestVars, pureVars, executorVars, storeVars, cliVars, again>>
  \/ \E t \in EventTypes, h \in Handlers : SubscriberOff(t, h) /\ UNCHANGED <<callVars, sharedVars, manifestVars, pureVars, executorVars, storeVars, cliVars, again>>
  \/ \E h \in Handlers : SubscriberOffAny(h) /\ UNCHANGED <<callVars, sharedVars, manifestVars, pureVars, executorVars, storeVars, cliVars, again>>
  \/ SubscriberClear /\ UNCHANGED <<callVars, sharedVars, manifestVars, pureVars, executorVars, storeVars, cliVars, again>>
  \/ \E e \in Emits : SubscriberEmitCalled(e) /\ UNCHANGED <<callVars, sharedVars, manifestVars, pureVars, executorVars, storeVars, cliVars, again>>
  \/ \E e \in Emits : SubscriberHandlerReturned(e) /\ UNCHANGED <<callVars, sharedVars, manifestVars, pureVars, executorVars, storeVars, cliVars, again>>
  \/ \E e \in Emits : SubscriberHandlerRaised(e) /\ UNCHANGED <<callVars, sharedVars, manifestVars, pureVars, executorVars, storeVars, cliVars, again>>

InitSubscribers == InitEngine({}) /\ InitManifestCaller /\ InitBus /\ InitPure /\ InitExtra

SpecSubscribers == InitSubscribers /\ [][NextSubscribers]_vars

\* ------------------- callers that register a handler more than once
\* the same calls, with a note of the registrations that were repeated;
\* these callers change the registrations at most MaxRepeated times
MaxRepeated == 2

RepeatedOn(t, h) ==
  /\ SubscriberOn(t, h)
  /\ version' <= MaxRepeated
  /\ again' = [again EXCEPT ![<<t, h>>] = IF IsRegistered(t, h) THEN "yes" ELSE "no"]
RepeatedOnAny(h) ==
  /\ SubscriberOnAny(h)
  /\ version' <= MaxRepeated
  /\ again' = [again EXCEPT ![<<"any", h>>] = IF Has(anyHandlers, h) THEN "yes" ELSE "no"]
RepeatedOff(t, h) ==
  /\ SubscriberOff(t, h)
  /\ version' <= MaxRepeated
  /\ again' = [again EXCEPT ![<<t, h>>] = IF @ = "yes" THEN "removed" ELSE @]
RepeatedOffAny(h) ==
  /\ SubscriberOffAny(h)
  /\ version' <= MaxRepeated
  /\ again' = [again EXCEPT ![<<"any", h>>] = IF @ = "yes" THEN "removed" ELSE @]
RepeatedClear ==
  /\ SubscriberClear
  /\ version' <= MaxRepeated
  /\ again' = [k \in Keys |-> "no"]

NextRepeated ==
  \/ \E t \in EventTypes, h \in Handlers : RepeatedOn(t, h) /\ UNCHANGED <<callVars, sharedVars, manifestVars, pureVars, executorVars, storeVars, cliVars>>
  \/ \E h \in Handlers : RepeatedOnAny(h) /\ UNCHANGED <<callVars, sharedVars, manifestVars, pureVars, executorVars, storeVars, cliVars>>
  \/ \E t \in EventTypes, h \in Handlers : RepeatedOff(t, h) /\ UNCHANGED <<callVars, sharedVars, manifestVars, pureVars, executorVars, storeVars, cliVars>>
  \/ \E h \in Handlers : RepeatedOffAny(h) /\ UNCHANGED <<callVars, sharedVars, manifestVars, pureVars, executorVars, storeVars, cliVars>>
  \/ RepeatedClear /\ UNCHANGED <<callVars, sharedVars, manifestVars, pureVars, executorVars, storeVars, cliVars>>
  \/ \E e \in Emits : SubscriberEmitCalled(e) /\ UNCHANGED <<callVars, sharedVars, manifestVars, pureVars, executorVars, storeVars, cliVars, again>>
  \/ \E e \in Emits : SubscriberHandlerReturned(e) /\ UNCHANGED <<callVars, sharedVars, manifestVars, pureVars, executorVars, storeVars, cliVars, again>>
  \/ \E e \in Emits : SubscriberHandlerRaised(e) /\ UNCHANGED <<callVars, sharedVars, manifestVars, pureVars, executorVars, storeVars, cliVars, again>>

InitRepeated == InitEngine({}) /\ InitManifestCaller /\ InitBus /\ InitPure /\ InitExtra

SpecRepeated == InitRepeated /\ [][NextRepeated]_vars

TypeOK ==
  /\ \A c \in Calls : run[c].status \in {"pending", "running", "paused", "completed", "failed"}
  /\ \A c \in Calls : manifest[c].status \in {"pending", "running", "completed", "failed"}


\* ------------------------------------------------------ getNextStep
\* steps.findLast instead of steps.find: the last declared step with that id
FindStep_Last(steps, id) ==
  IF \E i \in DOMAIN steps : steps[i].id = id
    THEN CHOOSE i \in DOMAIN steps : steps[i].id = id /\ \A j \in (i + 1)..Len(steps) : steps[j].id # id
    ELSE 0

\* workflow.steps.find((s) => s.id === id): position of the first match, 0 if none
FindStep(steps, id) ==
  IF \E i \in DOMAIN steps : steps[i].id = id
    THEN CHOOSE i \in DOMAIN steps : steps[i].id = id /\ \A j \in 1..(i - 1) : steps[j].id # id
    ELSE 0

\* getNextStep(workflow, run): the position in workflow.steps of the step it
\* returns, 0 when it returns null
getNextStep(steps, r) ==
  IF Len(r.completedSteps) = 0
    THEN (IF Len(steps) > 0 THEN 1 ELSE 0)
    ELSE LET lastCompletedId == r.completedSteps[Len(r.completedSteps)]
             lastStep == FindStep(steps, lastCompletedId)
         IN IF lastStep = 0 \/ steps[lastStep].next = Undefined \/ steps[lastStep].next = ""
              THEN 0
              ELSE FindStep(steps, steps[lastStep].next)

\* the workflows and completedSteps lists given to getNextStep: `next` may
\* be absent, empty, or name a declared or an undeclared step; a completed
\* id may be undeclared
ResolverSteps ==
  SeqsUpTo([id : StepIds, agent : {"a1"}, next : {Undefined, "", "s1", "s2", "s3"}], MaxSteps)

ResolverCompleted == SeqsUpTo(StepIds \cup {"s3"}, MaxCompleted)

InitResolver ==
  /\ InitEngine({}) /\ InitManifestCaller /\ InitBus /\ InitExtra
  /\ \E st \in ResolverSteps, cs \in ResolverCompleted :
       resolved = [NotResolved EXCEPT !.steps = st, !.completedSteps = cs,
                                      !.stepsAfter = st, !.completedAfter = cs]

\* getNextStep(workflow, run) returned: it only reads its arguments
CallGetNextStep ==
  /\ ~resolved.called
  /\ resolved' = [resolved EXCEPT
                    !.called = TRUE,
                    !.result = getNextStep(resolved.steps,
                                           [NoRun EXCEPT !.completedSteps = resolved.completedSteps])]
  /\ UNCHANGED <<callVars, sharedVars, manifestVars, busVars, extraVars>>

NextResolver == CallGetNextStep

SpecResolver == InitResolver /\ [][NextResolver]_vars

\* ------------------------------------------------- observation helpers
Started(c) == pc[c] # "idle"
Returned(c) == pc[c] = "returned"
Rejected(c) == pc[c] = "rejected"

\* no collaborator of call c (persistence, event handler, backend) raised
Nominal(c) == raised[c] = 0

Last(q) == q[Len(q)]

\* getManifest(runId) and the parsed content of <runDir>/manifest.json
getManifest(r) == Last(manifests[r])
loadManifest(r) == Last(manifestFile[r])

\* the events that carry run id r, in emission order
EventsOf(r) == SelectSeq(events, LAMBDA e : e.workflowId = r)

\* the artifact files under <runDir>/<stepId>/
FilesUnder(r, stepId) == {f \in files : f[1] = r /\ f[2] = stepId}

\* some event of type t (with error err) is at a position before some event
\* of type u (with error err) in q
Precedes(q, t, u, err) ==
  \E i, j \in DOMAIN q :
    /\ i < j
    /\ q[i].type = t /\ q[i].error = err
    /\ q[j].type = u /\ q[j].error = err


\* ================================================================ claims

\* C1: once run() has created the Run object, the promise it returns never
\* rejects: every failure of manifest persistence, artifact persistence, the
\* backend or an event handler ends in a returned Run with status 'failed'
\* and an error.
C1_RunNeverRejects ==
  \A c \in Calls :
    /\ ~Rejected(c)
    /\ (Returned(c) /\ raised[c] > 0) => (run[c].status = "failed" /\ run[c].error # Undefined)

\* the single-step success scenario of C2: one declared step, its agent is in
\* the map, the backend returned success with one artifact made for the
\* executed run and step, no collaborator raised, and run() has returned
SingleStepSuccess(c) ==
  /\ Returned(c)
  /\ Nominal(c)
  /\ Len(workflow[c]) = 1
  /\ FirstStep(c).agent \in agentDefinitions[c]
  /\ result[c].kind = "output" /\ result[c].success
  /\ Len(result[c].artifacts) = 1
  /\ result[c].artifacts[1].workflowId = runId[c]
  /\ result[c].artifacts[1].stepId = FirstStep(c).id

C3_FailureCarriesError ==
  \A c \in Calls :
    ( /\ Returned(c)
      /\ Nominal(c)
      /\ result[c].kind = "output" /\ ~result[c].success
      /\ result[c].error # Undefined )
    =>
      LET e == result[c].error
          r == runId[c]
      IN /\ run[c].status = "failed" /\ run[c].error = e
         /\ getManifest(r).status = "failed" /\ getManifest(r).error = e
         /\ Prop(loadManifest(r), "status") = "failed" /\ Prop(loadManifest(r), "error") = e
         /\ getManifest(r).steps[1].status = "failed" /\ getManifest(r).steps[1].error = e
         /\ Precedes(EventsOf(r), "step.failed", "workflow.failed", e)

\* some declared step names an agent that is not in the map
MissingAgents(c) == {workflow[c][i].agent : i \in DOMAIN workflow[c]} \ agentDefinitions[c]

\* some version of the manifest of run r (registry or disk) has a running step
EverRunning(r) ==
  \/ \E v \in DOMAIN manifests[r] : \E i \in DOMAIN manifests[r][v].steps :
        manifests[r][v].steps[i].status = "running"
  \/ \E v \in DOMAIN manifestFile[r] : \E i \in DOMAIN manifestFile[r][v].steps :
        manifestFile[r][v].steps[i].status = "running"

\* C4: when any declared step (not only the first) names an agent that is
\* absent from the map, run() returns 'failed' with an error naming the
\* missing agent, the backend's execute is never invoked and no ManifestStep
\* is marked 'running' in any manifest version.
C4_MissingAgentFailsRun ==
  \A c \in Calls :
    (Started(c) /\ MissingAgents(c) # {}) =>
      /\ \A i \in DOMAIN executions : executions[i].workflowId # runId[c]
      /\ ~EverRunning(runId[c])
      /\ (Returned(c) /\ Nominal(c)) =>
            /\ run[c].status = "failed"
            /\ \E a \in MissingAgents(c) : run[c].error = AgentNotFound(a)

\* C5: when execute() itself raises with message e, the outcome is the one of
\* a returned success=false with error e: the ManifestStep ends 'failed' with
\* e, step.failed is emitted before workflow.failed, and Run and manifest end
\* 'failed' with e.
C5_RaiseFoldsLikeFailure ==
  \A c \in Calls :
    ( /\ Returned(c)
      /\ result[c].kind = "raise"
      /\ raised[c] = 1 )
    =>
      LET e == result[c].error
          r == runId[c]
      IN /\ run[c].status = "failed" /\ run[c].error = e
         /\ getManifest(r).status = "failed" /\ getManifest(r).error = e
         /\ Prop(loadManifest(r), "status") = "failed" /\ Prop(loadManifest(r), "error") = e
         /\ getManifest(r).steps[1].status = "failed" /\ getManifest(r).steps[1].error = e
         /\ Precedes(EventsOf(r), "step.failed", "workflow.failed", e)


StepEnds == {"step.completed", "step.failed"}
WorkflowEnds == {"workflow.completed", "workflow.failed"}

\* q, the events of one run, is in lifecycle order
StartedFirst(q) ==
  \A i \in DOMAIN q : (q[i].type = "workflow.started") <=> (i = 1)

StepStartedBeforeItsEnd(q) ==
  \A i \in DOMAIN q :
    q[i].type \in StepEnds =>
      \E j \in 1..(i - 1) : q[j].type = "step.started" /\ q[j].stepId = q[i].stepId

StepEndThenWorkflowEnd(q) ==
  \A i \in DOMAIN q :
    (q[i].type \in StepEnds /\ i < Len(q)) =>
      q[i + 1].type = (IF q[i].type = "step.completed" THEN "workflow.completed"
                                                       ELSE "workflow.failed")

WorkflowEndIsLast(q) ==
  \A i \in DOMAIN q : q[i].type \in WorkflowEnds => i = Len(q)

C7_CompletedOnlyAtEnd ==
  \A c \in Calls :
    (Started(c) /\ Len(workflow[c]) > 0) =>
      LET r == runId[c]
          n == FindStep(workflow[c], FirstStep(c).next)
          NextRan == \E i \in DOMAIN executions :
                       executions[i] = [workflowId |-> r, stepId |-> workflow[c][n].id]
      IN (FirstStep(c).next # Undefined /\ n > 1) =>
           /\ run[c].status = "completed" => NextRan
           /\ \A v \in DOMAIN manifestFile[r] :
                manifestFile[r][v].status = "completed" =>
                  (NextRan /\ manifestFile[r][v].steps[n].status # "pending")
           /\ \A v \in DOMAIN manifests[r] :
                manifests[r][v].status = "completed" =>
                  (NextRan /\ manifests[r][v].steps[n].status # "pending")

\* the steps list of a manifest version mirrors the declared steps
StepsMirror(steps, declared) ==
  /\ Len(steps) = Len(declared)
  /\ \A i \in DOMAIN steps :
       steps[i].id = declared[i].id /\ steps[i].agent = declared[i].agent

\* C8: every manifest version of a run (registry and disk, first to last)
\* has exactly one ManifestStep per declared step, in declared order, with
\* the declared id and agent, however many steps were visited and however
\* the run ends.
C8_OneManifestStepPerDeclaredStep ==
  \A c \in Calls :
    Started(c) =>
      /\ StepsMirror(manifest[c].steps, workflow[c])
      /\ \A v \in DOMAIN manifests[runId[c]] :
           StepsMirror(manifests[runId[c]][v].steps, workflow[c])
      /\ \A v \in DOMAIN manifestFile[runId[c]] :
           StepsMirror(manifestFile[runId[c]][v].steps, workflow[c])

C8_Witness ==
  \E c \in Calls :
    /\ Returned(c)
    /\ Len(workflow[c]) = 2
    /\ Len(manifestFile[runId[c]]) = 3
    /\ run[c].completedSteps = <<FirstStep(c).id>>
    /\ StepsMirror(loadManifest(runId[c]).steps, workflow[c])

\* position of a step status in pending -> running -> {completed, failed, skipped}
Rank(status) ==
  CASE status = "pending" -> 0
    [] status = "running" -> 1
    [] OTHER -> 2

\* a step status b may follow a
Forward(a, b) == Rank(a) <= Rank(b) /\ (Rank(a) = 2 => a = b)

\* in the version list q every step's status only moves forward
StepsOnlyForward(q) ==
  \A v \in 1..(Len(q) - 1) :
    \A i \in DOMAIN q[v].steps :
      i \in DOMAIN q[v + 1].steps /\ Forward(q[v].steps[i].status, q[v + 1].steps[i].status)

\* C9: across the successive manifest versions of a run each ManifestStep's
\* status only moves forward along pending -> running -> {completed, failed,
\* skipped}: it never returns to an earlier status and never leaves
\* completed, failed or skipped.
C9_StepStatusMonotonic ==
  \A r \in RunIds : StepsOnlyForward(manifests[r]) /\ StepsOnlyForward(manifestFile[r])

C9_Witness ==
  \E c \in Calls :
    /\ pc[c] = "catch.emit"
    /\ LET q == manifestFile[runId[c]]
       IN /\ Len(q) = 4
          /\ q[1].steps[1].status = "pending"
          /\ q[2].steps[1].status = "running"
          /\ q[3].steps[1].status = "completed"
          /\ q[4].steps[1].status = "completed"
          /\ q[4].status = "failed"

\* C10: across the manifest versions written to disk for one run the
\* run-level status follows pending -> running -> completed or failed: after
\* a version with status completed or failed was written, no later version
\* has a different status, also when an event handler fails after the
\* terminal manifest was saved.
C10_RunStatusTerminal ==
  \A r \in RunIds :
    \A v \in 1..(Len(manifestFile[r]) - 1) :
      LET a == manifestFile[r][v].status
          b == manifestFile[r][v + 1].status
      IN /\ a \in {"completed", "failed"} => b = a
         /\ a = "running" => b \in {"running", "completed", "failed"}


\* C11: the manifest is on disk before the matching event is delivered: while
\* a handler of step.started, step.completed or step.failed for step s runs,
\* manifest.json records s as running, completed or failed, and while a
\* handler of workflow.completed or workflow.failed runs, manifest.json is
\* terminal.
C11_PersistedBeforeEvent ==
  \A c \in Calls :
    LET onDisk == loadManifest(runId[c])
    IN /\ pc[c] = "emit.step.started" => onDisk.steps[1].status = "running"
       /\ pc[c] = "emit.step.completed" => onDisk.steps[1].status = "completed"
       /\ pc[c] = "emit.step.failed" => onDisk.steps[1].status = "failed"
       /\ pc[c] \in {"emit.final", "catch.emit"} => onDisk.status \in {"completed", "failed"}

\* the calls of executor.execute made for run r
ExecutionsOf(r) == SelectSeq(executions, LAMBDA x : x.workflowId = r)

\* C13: for a workflow with zero steps (and collaborators that do not raise)
\* run() returns status 'failed' with a non-empty error, the persisted
\* manifest is 'failed' with an empty steps list, the backend is never
\* invoked, and the only events are workflow.started then workflow.failed.
C13_NoStepsFailsRun ==
  \A c \in Calls :
    (Started(c) /\ Len(workflow[c]) = 0) =>
      /\ ExecutionsOf(runId[c]) = <<>>
      /\ (Returned(c) /\ Nominal(c)) =>
           /\ run[c].status = "failed"
           /\ run[c].error \notin {Undefined, ""}
           /\ loadManifest(runId[c]).status = "failed"
           /\ loadManifest(runId[c]).steps = <<>>
           /\ getManifest(runId[c]).status = "failed"
           /\ [i \in DOMAIN EventsOf(runId[c]) |-> EventsOf(runId[c])[i].type]
                = <<"workflow.started", "workflow.failed">>

C13_Witness ==
  \E c \in Calls :
    /\ Returned(c) /\ Nominal(c)
    /\ Len(workflow[c]) = 0
    /\ run[c].error = NoSteps
    /\ Len(EventsOf(runId[c])) = 2

\* C14: within one run execute is invoked at most once, for the visited step
\* (workflow.steps[0]) only: a failed step is never executed again and no
\* other step (an on_fail / on_reject target) is ever executed.  execute is
\* the only operation of the backend the engine calls.
C14_ExecuteAtMostOnce ==
  \A c \in Calls :
    Started(c) =>
      LET ex == ExecutionsOf(runId[c])
      IN /\ Len(ex) <= 1
         /\ Len(ex) = 1 => ex[1].stepId = FirstStep(c).id
         /\ pc[c] = "execute" => Len(ex) = 1

C14_Witness ==
  \E c \in Calls :
    /\ Returned(c)
    /\ Len(workflow[c]) = 2
    /\ result[c].kind = "output" /\ ~result[c].success
    /\ Len(ExecutionsOf(runId[c])) = 1


\* ------------------------------------------------------- C12: two runs
Other(c) == IF c = "c1" THEN "c2" ELSE "c1"

\* the two calls received distinct run ids
DistinctIds == runId["c1"] # runId["c2"]

\* the backend labelled the artifacts of c's step with c's run id
OwnArtifacts(c) ==
  \A i \in DOMAIN result[c].artifacts : result[c].artifacts[i].workflowId = runId[c]

\* this step is a step of call c
StepOf(c) == pc'[c] # pc[c] \/ run'[c] # run[c]

\* a step of call c leaves the locals of the other call alone
KeepsLocalsOf(d) ==
  /\ pc'[d] = pc[d] /\ runId'[d] = runId[d] /\ workflow'[d] = workflow[d]
  /\ agentDefinitions'[d] = agentDefinitions[d] /\ run'[d] = run[d]
  /\ manifest'[d] = manifest[d] /\ result'[d] = result[d]
  /\ raised'[d] = raised[d] /\ rejection'[d] = rejection[d]

\* what the step writes to the registries, the disk, the bus and the
\* backend carries run id r
WritesOnlyUnder(r) ==
  /\ \A q \in RunIds \ {r} :
       /\ runs'[q] = runs[q]
       /\ manifests'[q] = manifests[q]
       /\ manifestFile'[q] = manifestFile[q]
  /\ files \subseteq files'
  /\ \A f \in files' \ files : f[1] = r
  /\ \A a \in (artifacts' \ artifacts) \cup (artifacts \ artifacts') : a.workflowId = r
  /\ events' = events \/ \E e \in {Last(events')} : e.workflowId = r /\ events' = Append(events, e)
  /\ executions' = executions
       \/ \E x \in {Last(executions')} : x.workflowId = r /\ executions' = Append(executions, x)

NoCrossWrites ==
  \A c \in Calls :
    (StepOf(c) /\ DistinctIds' /\ OwnArtifacts(c)') =>
      KeepsLocalsOf(Other(c)) /\ WritesOnlyUnder(runId'[c])

\* what the registry, the disk and the store hold for a finished call is
\* what that call alone computed
SameAsAlone(c) ==
  LET r == runId[c]
  IN /\ runs[r] = c
     /\ getManifest(r) = manifest[c]
     /\ Nominal(c) => loadManifest(r) = ManifestJSON(manifest[c])
     /\ \A v \in DOMAIN manifestFile[r] : manifestFile[r][v].id = r
     /\ {f \in files : f[1] = r}
          = {getArtifactPath(run[c].artifacts[i]) : i \in DOMAIN run[c].artifacts}
     /\ \A i \in DOMAIN run[c].artifacts :
          [run[c].artifacts[i] EXCEPT !.path = getArtifactPath(run[c].artifacts[i])] \in artifacts
     /\ \A i \in DOMAIN EventsOf(r) :
          (EventsOf(r)[i].type = "workflow.started") <=> (i = 1)
     /\ Len(ExecutionsOf(r)) <= 1

IsolatedRuns ==
  (DistinctIds /\ \A c \in Calls : OwnArtifacts(c)) =>
    \A c \in Calls : Returned(c) => SameAsAlone(c)

C15_NullOnlyWhenAbsent ==
  loaded.op = "tryLoadManifest" =>
    /\ (loaded.outcome = "null") <=> (loaded.file = "absent")
    /\ loaded.file \in {"unreadable", "garbage"} => loaded.outcome = "raise"

\* structural equality of a parsed manifest.json and a manifest: every
\* property reads the same (a property that is absent reads undefined)
SameStep(obj, st) ==
  /\ \A k \in DOMAIN st \ {"artifacts"} : Prop(obj, k) = st[k]
  /\ "artifacts" \in DOMAIN obj /\ obj.artifacts = st.artifacts

SameManifest(obj, m) ==
  /\ \A k \in DOMAIN m \ {"steps"} : Prop(obj, k) = m[k]
  /\ DOMAIN obj \subseteq DOMAIN m
  /\ "steps" \in DOMAIN obj /\ Len(obj.steps) = Len(m.steps)
  /\ \A i \in DOMAIN m.steps : SameStep(obj.steps[i], m.steps[i])

\* C16: loadManifest after saveManifest(dir, m) returns a manifest
\* structurally equal to m, for every m built with the transition
\* functions, and it is the manifest of the latest save to that directory.
C16_LoadReturnsLastSaved ==
  /\ (Len(saved) > 0 /\ file.kind = "json") =>
       /\ loadManifestFrom(file).outcome = "value"
       /\ SameManifest(loadManifestFrom(file).value, Last(saved))
  /\ (loaded.op = "loadManifest" /\ loaded.outcome = "value") =>
       SameManifest(loaded.value, saved[loaded.version])

C16_Witness ==
  /\ loaded.op = "loadManifest" /\ loaded.outcome = "value"
  /\ loaded.version = 2 /\ saved[1] # saved[2]
  /\ \E i \in DOMAIN saved[2].steps :
       /\ saved[2].steps[i].status = "failed" /\ saved[2].steps[i].error = Undefined
       /\ "error" \notin DOMAIN loaded.value.steps[i]

RunLevel == {"id", "workflowName", "workflowDescription", "status", "input",
             "startedAt", "completedAt", "error"}

SameExcept(a, b, keys) == \A k \in (RunLevel \cup {"steps"}) \ keys : a[k] = b[k]

\* C17: a transition function leaves the manifest it was given unchanged;
\* addManifestStep keeps the existing steps in place and appends a pending
\* step without artifacts; startManifest, completeManifest and failManifest
\* change only status, completedAt and error and keep the steps list.
C17_TransitionsArePure ==
  lastCall.op # "none" =>
    /\ inputAfter = inputBefore
    /\ lastCall.op = "addManifestStep" =>
         /\ SameExcept(snapshot, inputBefore, {"steps"})
         /\ Len(snapshot.steps) = Len(inputBefore.steps) + 1
         /\ \A i \in DOMAIN inputBefore.steps : snapshot.steps[i] = inputBefore.steps[i]
         /\ Last(snapshot.steps) =
              [id |-> lastCall.stepId, agent |-> "a1", status |-> "pending",
               startedAt |-> Undefined, completedAt |-> Undefined,
               error |-> Undefined, artifacts |-> <<>>]
    /\ lastCall.op = "startManifest" =>
         SameExcept(snapshot, inputBefore, {"status"}) /\ snapshot.status = "running"
    /\ lastCall.op = "completeManifest" =>
         /\ SameExcept(snapshot, inputBefore, {"status", "completedAt"})
         /\ snapshot.status = "completed" /\ snapshot.completedAt = Timestamp
    /\ lastCall.op = "failManifest" =>
         /\ SameExcept(snapshot, inputBefore, {"status", "completedAt", "error"})
         /\ snapshot.status = "failed" /\ snapshot.completedAt = Timestamp
         /\ snapshot.error = lastCall.error

C17_Witness ==
  /\ lastCall.op = "addManifestStep"
  /\ Len(inputBefore.steps) = 1 /\ inputBefore.steps[1].status = "completed"
  /\ inputBefore.status = "running"
  /\ snapshot # inputBefore

\* C18: updateManifestStep(m, id, u) gives the steps whose id is id the
\* properties of u and keeps their other properties, keeps every other step
\* and every run-level property, and returns a manifest equal to m when no
\* step has that id.
C18_UpdateMergesMatchingStep ==
  lastCall.op = "updateManifestStep" =>
    /\ SameExcept(snapshot, inputBefore, {"steps"})
    /\ Len(snapshot.steps) = Len(inputBefore.steps)
    /\ \A i \in DOMAIN inputBefore.steps :
         LET old == inputBefore.steps[i]
             new == snapshot.steps[i]
         IN IF old.id = lastCall.stepId
              THEN \A k \in DOMAIN old :
                     new[k] = IF k \in DOMAIN lastCall.update THEN lastCall.update[k] ELSE old[k]
              ELSE new = old
    /\ (\A i \in DOMAIN inputBefore.steps : inputBefore.steps[i].id # lastCall.stepId) =>
         snapshot = inputBefore

C18_Witness ==
  /\ lastCall.op = "updateManifestStep"
  /\ Len(inputBefore.steps) = 2
  /\ inputBefore.steps[1].id # lastCall.stepId
  /\ inputBefore.steps[2].id = lastCall.stepId
  /\ snapshot.steps[2] # inputBefore.steps[2]
  /\ snapshot.steps[1] = inputBefore.steps[1]

C18_WitnessNoMatch ==
  /\ lastCall.op = "updateManifestStep"
  /\ Len(inputBefore.steps) = 1
  /\ inputBefore.steps[1].id # lastCall.stepId


\* ------------------------------------------------ C19, C20: emit
IsPrefix(p, q) == Len(p) <= Len(q) /\ \A i \in DOMAIN p : p[i] = q[i]

OneAtATime(r) ==
  /\ Len(r.log) - r.finished \in {0, 1}
  /\ (r.running # NoHandler) <=> (Len(r.log) - r.finished = 1)
  /\ r.running # NoHandler => Last(r.log) = <<r.pc, r.running>>

SpecificBeforeWildcard(r) ==
  \A i, j \in DOMAIN r.log : (i < j /\ r.log[i][1] = "any") => r.log[j][1] = "any"

\* C19: emit calls the handlers of the event's type in registration order,
\* then the wildcard handlers in registration order; a handler is called
\* only when the one before it has finished, no type-specific handler is
\* called after a wildcard handler, and emit returns only when every handler
\* has been called and has finished.  (Order and completeness are stated for
\* an emit during which no on / off / clear call changes the registrations.)
C19_SequentialInOrder ==
  \A e \in Emits :
    LET r == emits[e]
    IN /\ OneAtATime(r)
       /\ SpecificBeforeWildcard(r)
       /\ ~r.disturbed => IsPrefix(r.log, r.expected)
       /\ r.pc = "resolved" =>
            /\ r.finished = Len(r.log)
            /\ ~r.disturbed => r.log = r.expected

C19_Witness ==
  \E e \in Emits :
    /\ emits[e].pc = "resolved" /\ ~emits[e].disturbed
    /\ emits[e].log = << <<"type", "h2">>, <<"type", "h1">>, <<"any", "h1">> >>

\* a handler failed during emit call e
Failed(e) == emits[e].error # Undefined

AbortedAtFailure ==
  \A e \in Emits :
    Failed(e) =>
      LET r == emits[e]
      IN /\ r.pc = "rejected" /\ r.error = HandlerError
         /\ r.running = NoHandler /\ r.finished = Len(r.log)
         /\ ~r.disturbed =>
              /\ IsPrefix(r.log, r.expected)
              /\ \A i, j \in DOMAIN r.log : i # j => r.log[i] # r.log[j]

DeliversAgain ==
  \A f \in Emits :
    (emits[f].after /\ emits[f].pc = "resolved" /\ ~emits[f].disturbed) =>
      emits[f].log = emits[f].expected

FailureChangesNothing ==
  \A e \in Emits :
    /\ (~Failed(e) /\ Failed(e)') =>
         UNCHANGED <<handlers, handlerSets, anyHandlers>>
    /\ Failed(e) => emits'[e] = emits[e]

\* C20: when a handler fails during emit, the promise of emit rejects with
\* that error, no handler after the failed one is called for the event, none
\* is called again for it, the registrations are what they were, and an emit
\* made afterwards calls every registered handler again.  (Which handlers
\* come after the failed one is stated for an emit during which no on / off /
\* clear call changes the registrations.)
C20_FailureAbortsEmit == []AbortedAtFailure /\ []DeliversAgain /\ [][FailureChangesNothing]_vars

C20_Witness ==
  /\ emits["e1"].pc = "rejected" /\ ~emits["e1"].disturbed
  /\ emits["e1"].log = << <<"type", "h2">> >>
  /\ Len(emits["e1"].expected) = 3
  /\ emits["e2"].after /\ emits["e2"].pc = "resolved"
  /\ emits["e2"].expected = emits["e1"].expected
  /\ emits["e2"].log = emits["e2"].expected


\* ---------------------------------- C30: one closing event per run
\* the workflow.completed / workflow.failed events emitted for run r
ClosingEvents(r) == SelectSeq(EventsOf(r), LAMBDA e : e.type \in WorkflowEnds)

\* C30: when run() returns, exactly one workflow.completed or
\* workflow.failed event has been emitted for the run, and it is
\* workflow.completed exactly when the returned Run is 'completed', also
\* when event handlers failed during the run.
C30_OneClosingEvent ==
  \A c \in Calls :
    Returned(c) =>
      /\ Len(ClosingEvents(runId[c])) = 1
      /\ (ClosingEvents(runId[c])[1].type = "workflow.completed")
           <=> (run[c].status = "completed")


\* ------------------------------------------------ C27: getNextStep
\* the declared steps whose id is id
Declared(steps, id) == {i \in DOMAIN steps : steps[i].id = id}

First(S) == CHOOSE i \in S : \A j \in S : i <= j

\* C27: with no completed step getNextStep returns the first declared step
\* (null without steps); otherwise it takes the declared step matching the
\* last completed id (the first one when an id is declared twice) and
\* returns the declared step its `next` names; it returns null when no
\* declared step matches the last completed id, when `next` is absent or
\* empty, and when `next` names no declared step.  The workflow and the run
\* are what they were.  (A result of 0 stands for null.)
C27_NextStepResolver ==
  resolved.called =>
    LET steps == resolved.steps
        cs == resolved.completedSteps
        found == resolved.result
    IN /\ resolved.stepsAfter = steps /\ resolved.completedAfter = cs
       /\ IF cs = <<>> THEN found = (IF steps = <<>> THEN 0 ELSE 1)
          ELSE IF Declared(steps, Last(cs)) = {} THEN found = 0
          ELSE LET next == steps[First(Declared(steps, Last(cs)))].next
               IN IF next \in {Undefined, ""} \/ Declared(steps, next) = {}
                    THEN found = 0
                    ELSE found = First(Declared(steps, next))

C27_Witness ==
  /\ resolved.called
  /\ Len(resolved.completedSteps) = 2 /\ Len(resolved.steps) = 2
  /\ resolved.steps[1].id = resolved.steps[2].id
  /\ resolved.steps[1].next = "s1" /\ resolved.steps[2].next = "s3"
  /\ resolved.result = 1

\* ------------------------------------ FileSystemArtifactStore (file-store.ts)
MaxStoreCalls == 3

\* this.artifacts is a Map: a list of entries in insertion order; set
\* replaces the entry of the key where it stands or appends one
MapHas(entries, id) == \E i \in DOMAIN entries : entries[i].id = id
\* what get(id) of the Map gives when it has no such key, and what the
\* store's get makes of it (undefined || null)
NullArtifact == [id |-> Null, workflowId |-> Null, stepId |-> Null, name |-> Null, path |-> <<>>]
MapGet(entries, id) ==
  IF MapHas(entries, id) THEN entries[CHOOSE i \in DOMAIN entries : entries[i].id = id]
  ELSE NullArtifact
MapSet(entries, value) ==
  IF MapHas(entries, value.id)
    THEN [i \in DOMAIN entries |-> IF entries[i].id = value.id THEN value ELSE entries[i]]
    ELSE Append(entries, value)
MapDelete(entries, id) == SelectSeq(entries, LAMBDA a : a.id # id)

\* what one instance works on: its index and the base directory
StoreState == [artifacts |-> store.artifacts, files |-> disk.files, dirs |-> disk.dirs]

\* a save that does not write over a file that is already there
saveArtifact_KeepsExisting(st, artifact, content) ==
  LET filePath == getArtifactPath(artifact)
  IN [artifacts |-> MapSet(st.artifacts, [artifact EXCEPT !.path = filePath]),
      files |-> [st.files EXCEPT ![filePath] = IF @ = Absent THEN content.bytes ELSE @],
      dirs |-> st.dirs \cup {<<>>, <<artifact.workflowId>>,
                             <<artifact.workflowId, artifact.stepId>>}]

\* save, lines 47-60: mkdir -p of the step directory, writeFile, index entry
\* with the path
saveArtifact(st, artifact, content) ==
  LET filePath == getArtifactPath(artifact)
  IN [artifacts |-> MapSet(st.artifacts, [artifact EXCEPT !.path = filePath]),
      files |-> [st.files EXCEPT ![filePath] = content.bytes],
      dirs |-> st.dirs \cup {<<>>, <<artifact.workflowId>>,
                             <<artifact.workflowId, artifact.stepId>>}]

\* load, lines 67-72
load(st, artifactId) ==
  LET artifact == MapGet(st.artifacts, artifactId)
  IN IF artifact = NullArtifact
       THEN [outcome |-> "rejected", value |-> "Artifact not found"]
     ELSE IF st.files[artifact.path] = Absent
       THEN [outcome |-> "rejected", value |-> Absent]
     ELSE [outcome |-> "resolved", value |-> st.files[artifact.path]]

\* list, line 79
list(st, workflowId) == SelectSeq(st.artifacts, LAMBDA a : a.workflowId = workflowId)

\* get, line 86
get(st, artifactId) == MapGet(st.artifacts, artifactId)

\* a delete that empties the index when it does not find the id
delete_ClearsWhenAbsent(st, artifactId) ==
  LET artifact == MapGet(st.artifacts, artifactId)
  IN IF artifact = NullArtifact THEN [st EXCEPT !.artifacts = <<>>]
     ELSE [st EXCEPT !.files = [@ EXCEPT ![artifact.path] = Absent],
                     !.artifacts = MapDelete(@, artifactId)]

\* delete, lines 93-101: rm of the file (a missing file is ignored), entry removed
delete(st, artifactId) ==
  LET artifact == MapGet(st.artifacts, artifactId)
  IN IF artifact = NullArtifact THEN st
     ELSE [st EXCEPT !.files = [@ EXCEPT ![artifact.path] = Absent],
                     !.artifacts = MapDelete(@, artifactId)]

\* a deleteWorkflow that removes every entry of the index
deleteWorkflow_PurgesAll(st, workflowId) ==
  [artifacts |-> <<>>,
   files |-> [p \in Paths |-> IF p[1] = workflowId THEN Absent ELSE st.files[p]],
   dirs |-> {d \in st.dirs : d = <<>> \/ d[1] # workflowId}]

\* deleteWorkflow, lines 108-121: rm -r of the run directory (a missing
\* directory is ignored), entries of the run removed
deleteWorkflow(st, workflowId) ==
  [artifacts |-> SelectSeq(st.artifacts, LAMBDA a : a.workflowId # workflowId),
   files |-> [p \in Paths |-> IF p[1] = workflowId THEN Absent ELSE st.files[p]],
   dirs |-> {d \in st.dirs : d = <<>> \/ d[1] # workflowId}]

\* listRuns, lines 128-133: the directories of the base directory
listRuns(st) == {r \in RunIds : <<r>> \in st.dirs}

\* runExists, lines 140-146
runExists(st, workflowId) == <<workflowId>> \in st.dirs

\* the caller's call returned: the instance and the directory are as st says
StoreBecomes(st, call) ==
  /\ nStoreCalls < MaxStoreCalls
  /\ nStoreCalls' = nStoreCalls + 1
  /\ disk' = [files |-> st.files, dirs |-> st.dirs]
  /\ storeCall' = [call EXCEPT !.before = StoreState]
  /\ UNCHANGED earlier

CallSave(artifact, content) ==
  /\ StoreBecomes(saveArtifact(StoreState, artifact, content),
                  [NoStoreCall EXCEPT !.op = "save", !.artifact = artifact, !.content = content])
  /\ store' = [store EXCEPT !.artifacts = saveArtifact(StoreState, artifact, content).artifacts,
                            !.saved = @ \cup {artifact.id},
                            !.latest = [@ EXCEPT ![artifact.id] = content.bytes]]

CallDelete(artifactId) ==
  /\ StoreBecomes(delete(StoreState, artifactId),
                  [NoStoreCall EXCEPT !.op = "delete", !.id = artifactId])
  /\ store' = [store EXCEPT !.artifacts = delete(StoreState, artifactId).artifacts]

CallDeleteWorkflow(workflowId) ==
  /\ StoreBecomes(deleteWorkflow(StoreState, workflowId),
                  [NoStoreCall EXCEPT !.op = "deleteWorkflow", !.workflowId = workflowId])
  /\ store' = [store EXCEPT !.artifacts = deleteWorkflow(StoreState, workflowId).artifacts,
                            !.removed = @ \cup {workflowId}]

\* an instance that rebuilds its index from what the earlier one had saved
NewStore_Rebuilds ==
  /\ store.instance = 1
  /\ store' = [instance |-> 2, artifacts |-> store.artifacts, saved |-> {}, removed |-> {},
               latest |-> [id \in ArtifactIds |-> Undefined]]
  /\ earlier' = store.artifacts
  /\ storeCall' = [NoStoreCall EXCEPT !.op = "new", !.before = StoreState]
  /\ UNCHANGED <<disk, nStoreCalls>>

\* the process ends and a later one runs new FileSystemArtifactStore(baseDir)
\* over the same directory, lines 23-27: an empty Map
NewStore ==
  /\ store.instance = 1
  /\ store' = [instance |-> 2, artifacts |-> <<>>, saved |-> {}, removed |-> {},
               latest |-> [id \in ArtifactIds |-> Undefined]]
  /\ earlier' = store.artifacts
  /\ storeCall' = [NoStoreCall EXCEPT !.op = "new", !.before = StoreState]
  /\ UNCHANGED <<disk, nStoreCalls>>

NextStore ==
  \/ \E a \in StoreArtifacts, c \in Contents : CallSave(a, c) /\ UNCHANGED <<callVars, sharedVars, manifestVars, busVars, pureVars, executorVars, historyVars, cliVars>>
  \/ \E id \in ArtifactIds : CallDelete(id) /\ UNCHANGED <<callVars, sharedVars, manifestVars, busVars, pureVars, executorVars, historyVars, cliVars>>
  \/ \E r \in RunIds : CallDeleteWorkflow(r) /\ UNCHANGED <<callVars, sharedVars, manifestVars, busVars, pureVars, executorVars, historyVars, cliVars>>
  \/ NewStore /\ UNCHANGED <<callVars, sharedVars, manifestVars, busVars, pureVars, executorVars, historyVars, cliVars>>

InitStoreOnly == InitEngine({}) /\ InitManifestCaller /\ InitBus /\ InitPure /\ InitExtra

SpecStore == InitStoreOnly /\ [][NextStore]_vars

\* ------------------------------------------ maestro run (cli/commands/run.ts)
\* <workflowsDir>/<name>.yaml: it loads (readFile and parseWorkflow succeed)
\* or it does not (missing, unreadable, not a workflow)
WorkflowFiles == {[loads |-> FALSE, steps |-> <<>>]} \cup [loads : {TRUE}, steps : Workflows]

\* options.input
InputOptions == {Undefined, "", "task"}

\* the agents a workflow's steps name
AgentsOf(steps) == {steps[i].agent : i \in DOMAIN steps}

Exit(code) == [cli EXCEPT !.pc = "exited", !.exitCode = code]

\* runCommand up to line 72, or dryRun: the options are read, the workflow
\* file and the agent files of its steps are loaded; agentFiles are the
\* agents whose file loads
RunCommand ==
  /\ cli.pc = "idle"
  /\ \E dryRun \in BOOLEAN, input \in InputOptions, wfFile \in WorkflowFiles,
        agentFiles \in SUBSET AgentNames :
       LET unloadable == ~wfFile.loads \/ ~(AgentsOf(wfFile.steps) \subseteq agentFiles)
           invoked == [cli EXCEPT !.dryRun = dryRun, !.input = input, !.unloadable = unloadable]
       IN cli' = IF dryRun
                   THEN [invoked EXCEPT !.pc = "exited",
                                        !.exitCode = IF wfFile.loads THEN 0 ELSE 1]
                 ELSE IF input \in {Undefined, ""}
                   THEN [invoked EXCEPT !.pc = "exited", !.exitCode = 1]
                 ELSE IF unloadable
                   THEN [invoked EXCEPT !.pc = "exited", !.exitCode = 1]
                 ELSE [invoked EXCEPT !.pc = "loaded", !.workflow = wfFile.steps,
                                      !.agents = AgentsOf(wfFile.steps)]

\* line 136: engine.run(workflow, agents, options.input) is called
CliEngineRun ==
  /\ cli.pc = "loaded"
  /\ StartWith("c1", cli.workflow, cli.agents)
  /\ cli' = [cli EXCEPT !.pc = "running"]

\* a command that ends with exit code 0 whatever the run came to
CliRunSettled_AlwaysZero ==
  /\ cli.pc = "running"
  /\ pc["c1"] \in {"returned", "rejected"}
  /\ cli' = Exit(0)

\* line 136 resumes: run() returned a run (lines 137-152) or raised (lines
\* 153-156); the process ends
CliRunSettled ==
  /\ cli.pc = "running"
  /\ pc["c1"] \in {"returned", "rejected"}
  /\ cli' = Exit(IF pc["c1"] = "returned" /\ run["c1"].status = "completed" THEN 0 ELSE 1)

otherVars == <<manifestVars, busVars, pureVars, executorVars, historyVars, storeVars>>

NextCli ==
  \/ RunCommand /\ UNCHANGED <<callVars, sharedVars, otherVars>>
  \/ CliEngineRun /\ UNCHANGED otherVars
  \/ CliRunSettled /\ UNCHANGED <<callVars, sharedVars, otherVars>>
  \/ \E c \in Calls : AwaitSaveInitial(c) /\ UNCHANGED libVars
  \/ \E c \in Calls : AwaitEmitWorkflowStarted(c) /\ UNCHANGED libVars
  \/ \E c \in Calls : AwaitSaveRunning(c) /\ UNCHANGED libVars
  \/ \E c \in Calls : AwaitEmitStepStarted(c) /\ UNCHANGED libVars
  \/ \E c \in Calls : AwaitExecute(c) /\ UNCHANGED libVars
  \/ \E c \in Calls : AwaitArtifactSave(c) /\ UNCHANGED libVars
  \/ \E c \in Calls : AwaitEmitStepCompleted(c) /\ UNCHANGED libVars
  \/ \E c \in Calls : AwaitEmitStepFailed(c) /\ UNCHANGED libVars
  \/ \E c \in Calls : AwaitSaveFinal(c) /\ UNCHANGED libVars
  \/ \E c \in Calls : AwaitEmitFinal(c) /\ UNCHANGED libVars
  \/ \E c \in Calls : AwaitCatchSave(c) /\ UNCHANGED libVars
  \/ \E c \in Calls : AwaitCatchEmit(c) /\ UNCHANGED libVars

\* one process: the command is invoked once, with one engine
InitCliOnly == InitWith({"c1"})

SpecCli == InitCliOnly /\ [][NextCli]_vars

\* ---------------------------------------------------- ClaudeCodeExecutor
\* ids are strings: sequences of characters, "-" among them
MaxIdLen == 2
Chars == {"a", "-"}
Ids == SeqsUpTo(Chars, MaxIdLen)
ExecutionInputs == [workflowId : Ids, stepId : Ids]

\* `${input.workflowId}:${input.stepId}`
executionKey(input) == input.workflowId \o <<":">> \o input.stepId

\* `${input.workflowId}-${input.stepId}-result`
artifactId(input) ==
  input.workflowId \o <<"-">> \o input.stepId \o <<"-", "r", "e", "s", "u", "l", "t">>

\* what execute resolves with: the result artifact, or success false and no artifact
ExecutionOutput(input, success) ==
  [success |-> success,
   artifacts |-> IF success
                 THEN <<[id |-> artifactId(input), workflowId |-> input.workflowId,
                         stepId |-> input.stepId, name |-> "result.md"]>>
                 ELSE <<>>]

NoOutput == [success |-> FALSE, artifacts |-> <<>>]

\* two execute calls are to be made, on any two inputs (aborted: the
\* call's AbortController was aborted; cancelled: cancel was called with the
\* call's workflowId and stepId while the call was in progress)
InitExecutions ==
  /\ \E i1 \in ExecutionInputs, i2 \in ExecutionInputs :
       executor = <<[input |-> i1, pc |-> "idle", output |-> NoOutput,
                     aborted |-> FALSE, cancelled |-> FALSE],
                    [input |-> i2, pc |-> "idle", output |-> NoOutput,
                     aborted |-> FALSE, cancelled |-> FALSE]>>
  /\ runningExecutions = {}

\* runningExecutions once delete(key) has been called on it
MapWithout(key) == {e \in runningExecutions : e.key # key}

\* execute up to its first await: the key is set
ExecuteCalled(n) ==
  /\ executor[n].pc = "idle"
  /\ \A m \in 1..(n - 1) : executor[m].pc # "idle"
  /\ executor' = [executor EXCEPT ![n].pc = "running"]
  /\ runningExecutions' = MapWithout(executionKey(executor[n].input))
                            \cup {[key |-> executionKey(executor[n].input), controller |-> n]}

\* the query has ended, with a result or with an error: execute returns,
\* its finally block deletes the key
ExecuteSettled(n) ==
  /\ executor[n].pc = "running"
  /\ \E success \in BOOLEAN :
       executor' = [executor EXCEPT ![n].pc = "done",
                                    ![n].output = ExecutionOutput(executor[n].input, success)]
  /\ runningExecutions' = MapWithout(executionKey(executor[n].input))

\* cancel(workflowId, stepId), lines 245-250: the controller found under the
\* key is aborted and the key deleted
cancel(workflowId, stepId) ==
  LET key == executionKey([workflowId |-> workflowId, stepId |-> stepId])
      inProgress == {n \in 1..2 : /\ executor[n].pc = "running"
                                  /\ executor[n].input.workflowId = workflowId
                                  /\ executor[n].input.stepId = stepId}
  IN /\ executor' = [n \in 1..2 |->
          [executor[n] EXCEPT !.aborted = @ \/ [key |-> key, controller |-> n] \in runningExecutions,
                              !.cancelled = @ \/ n \in inProgress]]
     /\ runningExecutions' = MapWithout(key)

\* getStatus(workflowId, stepId), lines 260-264
getStatus(workflowId, stepId) ==
  IF \E e \in runningExecutions :
       e.key = executionKey([workflowId |-> workflowId, stepId |-> stepId])
    THEN "running" ELSE "completed"

NextExecutor ==
  \/ \E n \in 1..2 : ExecuteCalled(n) /\ UNCHANGED <<callVars, sharedVars, manifestVars, busVars, pureVars, historyVars, storeVars, cliVars>>
  \/ \E n \in 1..2 : ExecuteSettled(n) /\ UNCHANGED <<callVars, sharedVars, manifestVars, busVars, pureVars, historyVars, storeVars, cliVars>>
  \/ \E n \in 1..2 : cancel(executor[n].input.workflowId, executor[n].input.stepId) /\ UNCHANGED <<callVars, sharedVars, manifestVars, busVars, pureVars, historyVars, storeVars, cliVars>>

InitExecutorOnly == InitEngine({}) /\ InitManifestCaller /\ InitBus /\ InitPure /\ InitHistory /\ InitStore /\ InitCli /\ InitExecutions
SpecExecutor == InitExecutorOnly /\ [][NextExecutor]_vars

\* C28: the artifacts two execute calls return have different ids when the
\* calls differ in workflowId or in stepId
C28_ArtifactIdsUniquePerTarget ==
  \A n \in 1..Len(executor), m \in 1..Len(executor) :
    /\ executor[n].pc = "done" /\ executor[m].pc = "done"
    /\ <<executor[n].input.workflowId, executor[n].input.stepId>>
         # <<executor[m].input.workflowId, executor[m].input.stepId>>
    => \A a \in 1..Len(executor[n].output.artifacts), b \in 1..Len(executor[m].output.artifacts) :
         executor[n].output.artifacts[a].id # executor[m].output.artifacts[b].id

\* ------------------------------------------ C21, C22: what a handler receives
Matches(k, e) == k[1] = "any" \/ emits[e].type = k[1]
Times(received, e) == Cardinality({i \in DOMAIN received : received[i] = e})

\* the emit calls made after the registration, in the order they invoked the handler
Since(s) == SelectSeq(s.received, LAMBDA e : e \notin s.before)

NeverAnotherType ==
  \A k \in Keys, e \in Emits :
    (subs[k].state = "on" /\ ~Matches(k, e)) => Times(subs[k].received, e) = 0

NoReplay ==
  \A k \in Keys, e \in Emits :
    (subs[k].state = "on" /\ e \in subs[k].ended) => Times(subs[k].received, e) = 0

EachOnce ==
  \A k \in Keys, e \in Emits :
    (subs[k].state = "on" /\ e \notin subs[k].before) =>
      /\ Times(subs[k].received, e) <= 1
      /\ (emits[e].pc = "resolved" /\ Matches(k, e)) => Times(subs[k].received, e) = 1

\* emit call e1 is made before e2
InEmissionOrder ==
  \A k \in Keys :
    subs[k].state = "on" => Since(subs[k]) \in {<<>>, <<"e1">>, <<"e2">>, <<"e1", "e2">>}

\* C21: a handler that is registered (for a type or as a wildcard) and has
\* not been unregistered since has been invoked once for each matching event
\* emitted after its registration whose emit has returned, in the order of the
\* emit calls, never for an event of another type and never for an event
\* whose emit had returned before the registration
C21_ReceivesWhatIsEmitted == NeverAnotherType /\ NoReplay /\ EachOnce /\ InEmissionOrder

NoDeliveryAfterOff ==
  \A k \in Keys : subs[k].state = "off" => subs[k].received = <<>>

OffLeavesOthers ==
  \A k \in Keys :
    (subs[k].state # "off" /\ subs'[k].state = "off") =>
      /\ \A t \in EventTypes, h \in Handlers :
           <<t, h>> # k => (IsRegistered(t, h)' <=> IsRegistered(t, h))
      /\ \A h \in Handlers : <<"any", h>> # k => (Has(anyHandlers, h)' <=> Has(anyHandlers, h))
      /\ \A j \in Keys \ {k} : subs'[j] = subs[j]

\* C22: once off(T, h) or offAny(h) has returned (and h has not been
\* registered again), no emit invokes h under that registration, neither one
\* called later nor one that was in progress; the call leaves every other
\* registration as it was
C22_OffHaltsDelivery == []NoDeliveryAfterOff /\ [][OffLeavesOthers]_vars

\* ------------------------------------------------ C23..C26: the store
NotFound == [outcome |-> "rejected", value |-> "Artifact not found"]

\* C23: right after save(a, c), load(a.id) gives the bytes of c and
\* get(a.id) gives a with the path <base>/<runId>/<stepId>/<name>, also when
\* the artifact had been saved before with another content; for an id that
\* is not in the index load fails with 'Artifact not found' and get gives null
C23_SaveLoadRoundTrip ==
  /\ storeCall.op = "save" =>
       /\ load(StoreState, storeCall.artifact.id)
            = [outcome |-> "resolved", value |-> storeCall.content.bytes]
       /\ get(StoreState, storeCall.artifact.id)
            = [storeCall.artifact EXCEPT !.path = <<storeCall.artifact.workflowId,
                                                     storeCall.artifact.stepId,
                                                     storeCall.artifact.name>>]
  /\ \A id \in ArtifactIds :
       ~MapHas(store.artifacts, id) =>
         /\ load(StoreState, id) = NotFound
         /\ get(StoreState, id) = NullArtifact

\* the same artifact is saved again with another content, another id is unknown
C23_Witness ==
  /\ storeCall.op = "save"
  /\ get(storeCall.before, storeCall.artifact.id)
       = [storeCall.artifact EXCEPT !.path = getArtifactPath(storeCall.artifact)]
  /\ storeCall.before.files[getArtifactPath(storeCall.artifact)]
       \notin {Absent, storeCall.content.bytes}
  /\ \E id \in ArtifactIds : ~MapHas(store.artifacts, id)

\* C24: right after deleteWorkflow(r), list(r) is empty, runExists(r) is
\* false, get gives null and load fails for every artifact the index held
\* under r; every artifact the index held under another run is listed and
\* returned by get and load as before the call, and the files and
\* directories of the other runs are as before the call
C24_DeleteWorkflowFrame ==
  storeCall.op = "deleteWorkflow" =>
    /\ list(StoreState, storeCall.workflowId) = <<>>
    /\ ~runExists(StoreState, storeCall.workflowId)
    /\ storeCall.workflowId \notin listRuns(StoreState)
    /\ \A i \in DOMAIN storeCall.before.artifacts :
         LET a == storeCall.before.artifacts[i]
         IN IF a.workflowId = storeCall.workflowId
              THEN /\ get(StoreState, a.id) = NullArtifact
                   /\ load(StoreState, a.id) = NotFound
              ELSE /\ get(StoreState, a.id) = a
                   /\ load(StoreState, a.id) = load(storeCall.before, a.id)
                   /\ list(StoreState, a.workflowId) = list(storeCall.before, a.workflowId)
    /\ \A p \in Paths : p[1] # storeCall.workflowId => disk.files[p] = storeCall.before.files[p]
    /\ \A d \in storeCall.before.dirs :
         (d = <<>> \/ d[1] # storeCall.workflowId) => d \in disk.dirs

\* the index held an artifact of the deleted run and a loadable one of another run
C24_Witness ==
  /\ storeCall.op = "deleteWorkflow"
  /\ \E i, j \in DOMAIN storeCall.before.artifacts :
       /\ storeCall.before.artifacts[i].workflowId = storeCall.workflowId
       /\ storeCall.before.artifacts[j].workflowId # storeCall.workflowId
       /\ load(storeCall.before, storeCall.before.artifacts[j].id).outcome = "resolved"

\* C25: delete(id) for an id that is not in the index and deleteWorkflow(r)
\* for a run without a directory leave the index and the directory as they
\* are, when called and whenever they would be called; delete(id) and
\* deleteWorkflow(r) applied twice give what they give applied once
C25_DeleteIdempotent ==
  /\ (storeCall.op = "delete" /\ ~MapHas(storeCall.before.artifacts, storeCall.id)) =>
       StoreState = storeCall.before
  /\ (storeCall.op = "deleteWorkflow" /\ ~runExists(storeCall.before, storeCall.workflowId)) =>
       StoreState = storeCall.before
  /\ \A id \in ArtifactIds :
       /\ ~MapHas(store.artifacts, id) => delete(StoreState, id) = StoreState
       /\ delete(delete(StoreState, id), id) = delete(StoreState, id)
  /\ \A r \in RunIds :
       /\ ~runExists(StoreState, r) => deleteWorkflow(StoreState, r) = StoreState
       /\ deleteWorkflow(deleteWorkflow(StoreState, r), r) = deleteWorkflow(StoreState, r)

\* delete was called for an id the index did not hold, while it held another
C25_Witness ==
  /\ storeCall.op = "delete"
  /\ ~MapHas(storeCall.before.artifacts, storeCall.id)
  /\ storeCall.before.artifacts # <<>>

\* C26: for an instance created over the directory an earlier instance
\* wrote to, and every artifact the earlier one had saved: unless the new
\* instance has saved that id itself, get gives null, load fails with
\* 'Artifact not found' and list does not hold it; unless the new instance has
\* deleted the run, runExists is true and listRuns holds the run.  What list
\* gives are artifacts the new instance saved.
C26_NewInstanceStartsEmpty ==
  store.instance = 2 =>
    /\ \A i \in DOMAIN earlier :
         /\ earlier[i].id \notin store.saved =>
              /\ get(StoreState, earlier[i].id) = NullArtifact
              /\ load(StoreState, earlier[i].id) = NotFound
         /\ earlier[i].workflowId \notin store.removed =>
              /\ runExists(StoreState, earlier[i].workflowId)
              /\ earlier[i].workflowId \in listRuns(StoreState)
    /\ \A r \in RunIds :
         \A j \in DOMAIN list(StoreState, r) : list(StoreState, r)[j].id \in store.saved

\* the new instance has saved one id the earlier one had saved too, not the other
C26_Witness ==
  /\ store.instance = 2
  /\ Len(earlier) = 2
  /\ Cardinality(store.saved) = 1
  /\ \E i \in DOMAIN earlier : earlier[i].id \in store.saved

\* --------------------------------------------- C29: exit code of `run`
RunCompleted == Returned("c1") /\ run["c1"].status = "completed"
RunFailed == Returned("c1") /\ run["c1"].status = "failed"
NoRunCreated ==
  /\ ~Started("c1")
  /\ events = <<>>
  /\ \A r \in RunIds : manifestFile[r] = <<>> /\ manifests[r] = <<>>

ExitCodeFollowsRun ==
  /\ (cli.exitCode = 0) <=> RunCompleted
  /\ cli.unloadable => (cli.exitCode = 1 /\ NoRunCreated)
  /\ RunFailed => cli.exitCode = 1

\* C29 as stated: when the command has ended, its exit code is 0 exactly
\* when the run ended 'completed'; it is 1, with no run created, no manifest
\* written and no event emitted, when the workflow file or the agent file of
\* a declared step could not be loaded; it is 1 when the run ended 'failed'
C29_ExitCode == cli.pc = "exited" => ExitCodeFollowsRun

\* C29 for an invocation without --dry-run: when the command has ended, its
\* exit code is 0 exactly when the run ended 'completed'; it is 1, with no run
\* created, no manifest written and no event emitted, when the workflow file
\* or the agent file of a declared step could not be loaded; it is 1 when the
\* run ended 'failed'
C29_ExitCodeWithoutDryRun == (cli.pc = "exited" /\ ~cli.dryRun) => ExitCodeFollowsRun

\* the command ended with code 0 after a run that completed
C29_Witness ==
  /\ cli.pc = "exited" /\ ~cli.dryRun
  /\ cli.exitCode = 0
  /\ RunCompleted
  /\ Len(events) > 1

\* C31: across any sequence of save, delete and deleteWorkflow calls on one
\* store, every artifact id present in the index can be loaded, and load(id)
\* returns the content most recently saved under that id, also when two ids
\* share the same (run id, step id, name) and when one id is saved again
\* under a different run, step or name.
C31_IndexedIdsLoadLatest ==
  \A i \in DOMAIN store.artifacts :
    LET id == store.artifacts[i].id
    IN load(StoreState, id) = [outcome |-> "resolved", value |-> store.latest[id]]

\* the points of call c at which outside code runs: a handler of an event
\* the call emitted, or the code that awaited run()
Observable(c) ==
  pc[c] \in {"emit.workflow.started", "emit.step.started", "emit.step.completed",
             "emit.step.failed", "emit.final", "catch.emit", "returned"}

\* C32: at every point of a run at which outside code can observe the
\* engine (inside any event handler and after run has returned),
\* getManifest(runId) equals the manifest version most recently written to
\* disk for that run.
C32_GetManifestIsOnDisk ==
  \A c \in Calls :
    Observable(c) => SameManifest(loadManifest(runId[c]), getManifest(runId[c]))

\* the workflow.failed event of run r that was emitted last
LastWorkflowFailed(r) ==
  Last(SelectSeq(EventsOf(r), LAMBDA e : e.type = "workflow.failed"))

\* C33: whenever run returns a Run with status 'failed', Run.error, the
\* error stored in the final manifest and the error carried by the
\* workflow.failed event are the same string, also when the backend reports
\* success=false without an error message.
C33_OneErrorString ==
  \A c \in Calls :
    (Returned(c) /\ run[c].status = "failed") =>
      /\ \E e \in DOMAIN EventsOf(runId[c]) : EventsOf(runId[c])[e].type = "workflow.failed"
      /\ run[c].error = getManifest(runId[c]).error
      /\ run[c].error = Prop(loadManifest(runId[c]), "error")
      /\ run[c].error = LastWorkflowFailed(runId[c]).error

\* the ids of the ManifestSteps of m whose status is 'completed'
CompletedIn(m) == {m.steps[i].id : i \in {j \in DOMAIN m.steps : m.steps[j].status = "completed"}}

\* q lists ids in the order in which the steps of m stand
InStepOrder(q, m) ==
  \A i, j \in DOMAIN q :
    i < j => \E k, l \in DOMAIN m.steps : k < l /\ m.steps[k].id = q[i] /\ m.steps[l].id = q[j]

\* C34: when run returns, Run.completedSteps lists exactly the ids of the
\* ManifestSteps whose status is 'completed' in the final manifest, in
\* execution order, whatever the outcome of the run (also when the run
\* fails because a handler of step.completed or workflow.completed failed).
C34_CompletedStepsMatchManifest ==
  \A c \in Calls :
    Returned(c) =>
      /\ {run[c].completedSteps[i] : i \in DOMAIN run[c].completedSteps}
           = CompletedIn(getManifest(runId[c]))
      /\ InStepOrder(run[c].completedSteps, getManifest(runId[c]))

\* C35: whenever a manifest version written to disk lists an artifact
\* reference '<stepId>/<name>' for a step, the file <runDir>/<stepId>/<name>
\* exists on disk: every artifact is written before a manifest that
\* references it is persisted, and the reference names the location where
\* the store put the file, for every artifact list the backend may return.
C35_ReferencedArtifactsExist ==
  \A r \in RunIds :
    \A v \in DOMAIN manifestFile[r] :
      \A i \in DOMAIN manifestFile[r][v].steps :
        LET refs == manifestFile[r][v].steps[i].artifacts
        IN \A k \in DOMAIN refs : <<r, refs[k][1], refs[k][2]>> \in files

\* the positions of the ManifestSteps of m whose status is 'running'
RunningIn(m) == {i \in DOMAIN m.steps : Prop(m.steps[i], "status") = "running"}

\* call c is between marking its step 'running' and the step's outcome
Executing(c) ==
  pc[c] \in {"save.running", "emit.step.started", "execute", "save.artifact"}

\* C36: in every manifest version of a run, at most one ManifestStep has
\* status 'running', and it is the step the engine is currently executing,
\* for every workflow the schema accepts (also one that declares the same
\* step id more than once).
C36_OneRunningStep ==
  \A c \in Calls :
    Started(c) =>
      /\ \A v \in DOMAIN manifestFile[runId[c]] :
           Cardinality(RunningIn(manifestFile[runId[c]][v])) <= 1
      /\ \A v \in DOMAIN manifests[runId[c]] :
           Cardinality(RunningIn(manifests[runId[c]][v])) <= 1
      /\ Len(manifestFile[runId[c]]) > 0 =>
           \A i \in RunningIn(loadManifest(runId[c])) : Executing(c) /\ i = 1

\* ------------------------------------- C37..C39: registrations and emits
\* the emit calls that were in progress when the handler was registered
InProgressAtRegistration(s) == s.before \ s.ended

\* C37: a handler that is registered for type T (or as a wildcard) while an
\* emit of a T-typed event is still in progress is not invoked for the
\* in-flight event; the first event it receives is the next one emitted.
C37_NotInvokedForInFlightEmit ==
  \A k \in Keys :
    subs[k].state = "on" =>
      /\ \A e \in InProgressAtRegistration(subs[k]) :
           Matches(k, e) => Times(subs[k].received, e) = 0
      /\ subs[k].received # <<>> => subs[k].received[1] \notin subs[k].before

\* C38: once clear() has returned, no handler registered before the clear
\* is invoked again (unless it is registered anew): neither by a later emit
\* nor by the remaining part of an emit that was in progress when clear()
\* was called, for type-specific and wildcard handlers alike.
C38_ClearHaltsDelivery ==
  \A k \in Keys : subs[k].state = "cleared" => subs[k].received = <<>>

\* the Set a registration of scope k[1] is held in
SetOf(k) == IF k[1] = "any" THEN anyHandlers ELSE TypeEntries(handlers[k[1]])
Occurrences(entries, h) == Cardinality({i \in DOMAIN entries : entries[i] = h})

OnceInSet ==
  \A k \in Keys : again[k] = "yes" => Occurrences(SetOf(k), k[2]) = 1

OncePerEmit ==
  \A k \in Keys, e \in Emits :
    (again[k] = "yes" /\ subs[k].state = "on" /\ e \notin subs[k].before) =>
      /\ Times(subs[k].received, e) <= 1
      /\ (emits[e].pc = "resolved" /\ Matches(k, e)) => Times(subs[k].received, e) = 1

\* the repeated call moves nothing: the handler stays where it stood
KeepsPosition ==
  \A k \in Keys :
    (again[k] # "yes" /\ again'[k] = "yes") => UNCHANGED <<handlers, handlerSets, anyHandlers>>

SingleOffRemoves ==
  \A k \in Keys :
    (again[k] = "yes" /\ again'[k] = "removed") => Occurrences(SetOf(k), k[2])' = 0

\* C39: registering the same handler function more than once for the same
\* event type (or more than once as a wildcard) results in exactly one
\* invocation per matching emit, at the position of its first registration,
\* and a single off / offAny call removes it completely.
C39_RepeatedRegistrationIsOne ==
  [](OnceInSet /\ OncePerEmit) /\ [][KeepsPosition /\ SingleOffRemoves]_vars

\* a handler was registered twice, an emit that has returned invoked it
\* once, and one off / offAny call has removed it
C39_Witness ==
  \E k \in Keys, e \in Emits :
    /\ again[k] = "removed"
    /\ Occurrences(SetOf(k), k[2]) = 0
    /\ Matches(k, e) /\ emits[e].pc = "resolved"
    /\ Occurrences(emits[e].log, <<IF k[1] = "any" THEN "any" ELSE "type", k[2]>>) = 1

\* ------------------------------------------ C40: getStatus and cancel
InProgress(workflowId, stepId) ==
  \E n \in 1..2 : /\ executor[n].pc = "running"
                   /\ executor[n].input.workflowId = workflowId
                   /\ executor[n].input.stepId = stepId

\* C40: getStatus(runId, stepId) returns 'running' exactly while an execute
\* call for that (runId, stepId) has started and not yet returned, also
\* after cancel has been called for it and when two execute calls for the
\* same (runId, stepId) overlap; cancel aborts every execute call in
\* progress for that key.
C40_StatusFollowsExecute ==
  /\ \A w \in Ids, s \in Ids : getStatus(w, s) = "running" <=> InProgress(w, s)
  /\ \A n \in 1..2 : executor[n].cancelled => executor[n].aborted

====
